---- MODULE Spec2Model ----
(***************************************************************************)
(* A model of the picklecast engine (src/engine): schedule geometry, the   *)
(* league capacity auto-fitter, the weekly allocator, the compute          *)
(* orchestrator, the utilization solver, the capital structure, the        *)
(* 24-month projection and the financial statement builder.                *)
(*                                                                         *)
(* Numeric conventions.  The engine computes with Python floats; the model *)
(* computes with integers:                                                 *)
(*   - times are minutes, court-time is court-minutes;                     *)
(*   - member shares, tier mixes and tier discounts are fifths;            *)
(*     utilizations are percent;                                           *)
(*   - a quantity a claim compares exactly is kept exact as a scaled       *)
(*     integer, the scale stated where it is computed.                     *)
(*                                                                         *)
(*   - fill_rate is sixtieths (the monthly ramp moves it in sixths of a    *)
(*     tenth);                                                             *)
(*   - where the engine rounds nothing and the model must, it rounds down  *)
(*     (Frac), and says so.                                                *)
(*                                                                         *)
(* Every engine entry point is a call that runs from pc = "call" to a      *)
(* final position ("done", or the name of the exception it raised).        *)
(***************************************************************************)
EXTENDS Integers, Sequences, FiniteSets, TLC

VARIABLES
    entry,  \* the entry point the caller invoked
    pc,     \* the position of the running call
    heap,   \* the objects: heap.cfg is the caller's, heap.cfg_m the month copy
    arg,    \* which object the running call was handed: "cfg" or "cfg_m"
    loc,    \* the locals of derive_league_capacity and compute
    proj,   \* the locals of build_24_month_projection
    stmt,   \* the locals of build_financial_statements
    res,    \* the value the last completed call returned
    prev    \* the caller's record of the call before this one

vars == <<entry, pc, heap, arg, loc, proj, stmt, res, prev>>

\* the object the running call was handed
Arg == heap[arg]

None == [none |-> TRUE]

Max(a, b) == IF a >= b THEN a ELSE b
Min(a, b) == IF a <= b THEN a ELSE b
Abs(a) == IF a >= 0 THEN a ELSE -a

\* Python's a / b, rounded down: a number is [value |-> n], and a zero
\* divisor raises
ZeroDivisionError == [raise |-> "ZeroDivisionError"]
Float(n) == [value |-> n]
PyDiv(a, b) == IF b = 0 THEN ZeroDivisionError ELSE Float(a \div b)

(***************************************************************************)
(* Bounds of the model.                                                    *)
(***************************************************************************)
MaxCourts == 3
MaxCourtsUsed == 4

(***************************************************************************)
(* engine/schedule.py                                                      *)
(***************************************************************************)
\* court-minutes per week
total_court_hours_week(fac) == fac.courts * fac.hours_per_day * 7

prime_hours_week(fac, win) ==
    LET mon_thu_h == Max(0, win.mon_thu_end - win.mon_thu_start) * 4
        fri_h     == Max(0, win.fri_end - win.fri_start) * 1
        wknd_h    == win.weekend_morning_hours * 2
    IN  (mon_thu_h + fri_h + wknd_h) * fac.courts

\* math.floor(window_h / block_h); the caller has ruled out block_h = 0
blocks_per_window(window_h, session_len_h, buffer_min) ==
    window_h \div (session_len_h + buffer_min)

weekly_league_blocks(win, lg) ==
    LET mon_thu_w   == Max(0, win.mon_thu_end - win.mon_thu_start)
        fri_w       == Max(0, win.fri_end - win.fri_start)
        blk_mon_thu == blocks_per_window(mon_thu_w, lg.session_len_h, lg.buffer_min)
        blk_fri     == blocks_per_window(fri_w, lg.session_len_h, lg.buffer_min)
        blk_wknd    == blocks_per_window(win.weekend_morning_hours,
                                         lg.session_len_h, lg.buffer_min)
        mon_thu_nights == Min(lg.weeknights, 4)
        fri_nights     == Max(0, lg.weeknights - mon_thu_nights)
    IN  mon_thu_nights * blk_mon_thu + fri_nights * blk_fri
          + lg.weekend_morns * blk_wknd

league_court_hours_week(win, lg) ==
    weekly_league_blocks(win, lg) * (lg.session_len_h + lg.buffer_min)
      * lg.courts_used

\* prime share in percent, rounded down; 0 when there are no court-hours
engine_prime_share(c) ==
    LET prime_ch == prime_hours_week(c.facility, c.prime)
        total_ch == total_court_hours_week(c.facility)
    IN  IF total_ch > 0 THEN PyDiv(prime_ch * 100, total_ch) ELSE Float(0)

(***************************************************************************)
(* engine/league_capacity.py                                               *)
(***************************************************************************)
\* The engine computes in doubles, and a window that holds a whole number of
\* blocks puts its comparisons within rounding of equality.
\* A double of the engine that stands for m minutes (m / 60 hours) is held
\* as m and its rounding error e, a whole number of quanta of
\* 2^-58 / 60 hours: the double is exactly m / 60 hours + e quanta.
Pow2(n) == 2^n

\* 2^n modulo 120: 1, 2, 4 and then 8, 16, 32, 64 over again
Pow2Mod120(n) == IF n < 3 THEN 2^n ELSE 2^(3 + ((n - 3) % 4))

RECURSIVE Exponent(_)
\* the binary exponent E of m / 60 hours, m > 0: 2^E <= m / 60 < 2^(E + 1)
Exponent(m) ==
    IF m >= 120 THEN Exponent(m \div 2) + 1
    ELSE IF m < 60 THEN Exponent(2 * m) - 1
    ELSE 0

\* the error of the double that IEEE-754 round-to-nearest-even returns for
\* the exact result m / 60 hours + e quanta of an operation
Rounded(m, e) ==
    IF m <= 0 THEN e
    ELSE LET E0    == Exponent(m)
             \* just below a power of two the doubles are twice as dense
             E     == IF e < 0 /\ E0 >= 0 /\ m = 60 * Pow2(E0) THEN E0 - 1 ELSE E0
             \* one unit in the last place, in quanta
             ulp   == 60 * Pow2(E + 6)
             \* (m * 2^(52 - E)) modulo 120: the place of m / 60 on the grid
             pos   == ((m % 120) * Pow2Mod120(52 - E)) % 120
             x     == (pos % 60) * Pow2(E + 6) + e
             k     == x \div ulp
             p     == x - k * ulp
             odd   == ((pos \div 60) + k) % 2 = 1
         IN  IF 2 * p < ulp \/ (2 * p = ulp /\ ~odd) THEN e - p ELSE e - p + ulp

\* A configured number m of minutes reaches the engine as the double
\* nearest to m / 60 hours, of error Rounded(m, 0), and so does
\* buffer_min / 60.0; k times a double, for a whole number k, is the exact
\* product rounded.
\* lines 22 and 36: session_len_h + buffer_min / 60.0
BlockLenErr(session_len_h, buffer_min) ==
    Rounded(session_len_h + buffer_min, Rounded(session_len_h, 0) + Rounded(buffer_min, 0))

\* lines 59, 72, 82, 92 and 102: weekly_blocks * block_len_h * courts_used
LeagueChErr(weekly_blocks, block_len_h, block_len_err, courts_used) ==
    LET blocks_err == Rounded(weekly_blocks * block_len_h, weekly_blocks * block_len_err)
    IN  Rounded(courts_used * weekly_blocks * block_len_h, courts_used * blocks_err)

\* lines 52-56: courts * (4 * mon_thu_hours + 1 * fri_hours + 2 * weekend_hours)
PrimeChErr(courts, mt, mt_err, fri, fri_err, we, we_err) ==
    LET a  == Rounded(4 * mt, 4 * mt_err)
        b  == Rounded(1 * fri, 1 * fri_err)
        ab == Rounded(4 * mt + fri, a + b)
        c  == Rounded(2 * we, 2 * we_err)
        s  == Rounded(4 * mt + fri + 2 * we, ab + c)
    IN  Rounded(courts * (4 * mt + fri + 2 * we), courts * s)

\* line 23: math.floor(window_hours / block_len_h) of a window of w minutes
\* and a block of b > 0 minutes.  Only a window of a whole number k of blocks
\* is within rounding of a whole quotient: the double quotient is k unless
\* it falls short of k by more than half the spacing of the doubles below k.
FloorOfQuotient(w, w_err, b, b_err) ==
    IF w <= 0 \/ w % b # 0 THEN w \div b
    ELSE LET k     == w \div b
             d     == k * b_err - w_err
             Ek    == Exponent(60 * k)
             below == IF k = Pow2(Ek) THEN Ek + 4 ELSE Ek + 5
         IN  IF d > b * Pow2(below) THEN k - 1 ELSE k

\* math.floor(window_hours / block_len_h); block_len_h = 0 raises instead.
\* window_hours is a double: min minutes, off by err quanta
calculate_blocks_per_window(window_hours, session_len_h, buffer_min) ==
    FloorOfQuotient(window_hours.min, window_hours.err, session_len_h + buffer_min,
                    BlockLenErr(session_len_h, buffer_min))

WeeklyBlocks(l) == 4 * l.blocks_mon_thu + 1 * l.blocks_fri + 2 * l.blocks_weekend

LeagueCh(l) == WeeklyBlocks(l) * l.block_len_h * l.courts_used

\* f"{x:.1f}" of a court-minute figure: tenths of a court-hour, half to even
Fmt1(ch) ==
    LET q == ch \div 6
        r == ch % 6
    IN  IF r > 3 \/ (r = 3 /\ q % 2 = 1) THEN q + 1 ELSE q

\* league_ch_week > prime_ch_week of the doubles: quantities that differ by
\* a court-minute or more compare as they are, equal ones by their errors
Exceeds(l) ==
    \/ l.league_ch_week > l.prime_ch_week
    \/ /\ l.league_ch_week = l.prime_ch_week
       /\ LeagueChErr(l.weekly_blocks, l.block_len_h, l.block_len_err, l.courts_used)
            > l.prime_ch_err

\* the loop conditions of the four reduction stages
\* a first stage that gives up at three courts
Step1CondStopsAtThree(l) == l.courts_used > 3 /\ Exceeds(l)
Step1Cond(l) == l.courts_used > 2 /\ Exceeds(l)
Step2Cond(l) == l.blocks_fri > 0 /\ Exceeds(l)
Step3Cond(l) == l.blocks_mon_thu > 0 /\ Exceeds(l)
\* a last stage that keeps one weekend block
Step4CondKeepsOne(l) == l.blocks_weekend > 1 /\ Exceeds(l)
Step4Cond(l) == l.blocks_weekend > 0 /\ Exceeds(l)

LeagueCapacityResult(l, fitted, warnings) ==
    [weekly_blocks  |-> l.weekly_blocks,
     blocks_mon_thu |-> l.blocks_mon_thu,
     blocks_fri     |-> l.blocks_fri,
     blocks_weekend |-> l.blocks_weekend,
     courts_used    |-> l.courts_used,
     league_ch_week |-> l.league_ch_week,
     prime_ch_week  |-> l.prime_ch_week,
     fitted         |-> fitted,
     warnings       |-> warnings]

\* lines 107-108 and the return: the stage warning, headed by the summary
FitReturn(l, w) ==
    LeagueCapacityResult(l, TRUE,
        <<[stage |-> "auto-fitted", original_ch |-> Fmt1(l.original_ch),
           league_ch |-> Fmt1(l.league_ch_week)]>> \o <<w>>)

\* lines 35-66 of derive_league_capacity, entered with the caller's objects
DeriveEnter(prime, league, facility) ==
    LET block_len_h   == league.session_len_h + league.buffer_min
        \* end - start of two configured hours
        Hours(start, end) ==
            [min |-> end - start,
             err |-> Rounded(end - start, Rounded(end, 0) - Rounded(start, 0))]
        mon_thu_hours == Hours(prime.mon_thu_start, prime.mon_thu_end)
        fri_hours     == Hours(prime.fri_start, prime.fri_end)
        weekend_hours == [min |-> prime.weekend_morning_hours,
                          err |-> Rounded(prime.weekend_morning_hours, 0)]
        bmt == calculate_blocks_per_window(mon_thu_hours, league.session_len_h, league.buffer_min)
        bfr == calculate_blocks_per_window(fri_hours, league.session_len_h, league.buffer_min)
        bwe == calculate_blocks_per_window(weekend_hours, league.session_len_h, league.buffer_min)
        wb  == 4 * bmt + 1 * bfr + 2 * bwe
    IN  [block_len_h    |-> block_len_h,
         block_len_err  |-> BlockLenErr(league.session_len_h, league.buffer_min),
         blocks_mon_thu |-> bmt,
         blocks_fri     |-> bfr,
         blocks_weekend |-> bwe,
         weekly_blocks  |-> wb,
         prime_ch_week  |-> facility.courts
                              * (4 * mon_thu_hours.min + 1 * fri_hours.min
                                   + 2 * weekend_hours.min),
         prime_ch_err   |-> PrimeChErr(facility.courts, mon_thu_hours.min,
                                       mon_thu_hours.err, fri_hours.min, fri_hours.err,
                                       weekend_hours.min, weekend_hours.err),
         courts_used    |-> league.courts_used,
         league_ch_week |-> wb * block_len_h * league.courts_used,
         original_ch    |-> wb * block_len_h * league.courts_used]

\* derive_league_capacity up to the test of line 66
Derive ==
    /\ pc = "call"
    /\ IF Arg.league.session_len_h + Arg.league.buffer_min = 0
       THEN /\ pc' = "ZeroDivisionError"
            /\ UNCHANGED loc
       ELSE LET l == DeriveEnter(Arg.prime, Arg.league, Arg.facility)
            IN  IF Exceeds(l)
                THEN /\ pc' = "step1"
                     /\ loc' = l
                ELSE /\ pc' = "derived"
                     /\ loc' = [league_cap |-> LeagueCapacityResult(l, TRUE, <<>>)]
    /\ UNCHANGED <<entry, heap, arg, proj, stmt, res, prev>>

\* one pass of a reduction loop: the new count, then lines 72 / 81-82
SetCourts(l, n) ==
    LET m == [l EXCEPT !.courts_used = n]
    IN  [m EXCEPT !.league_ch_week = m.weekly_blocks * m.block_len_h * m.courts_used]

Recount(m) ==
    LET k == [m EXCEPT !.weekly_blocks = WeeklyBlocks(m)]
    IN  [k EXCEPT !.league_ch_week = k.weekly_blocks * k.block_len_h * k.courts_used]

\* Step 1: reduce courts_used (min 2), lines 70-72
ReduceCourts ==
    /\ pc = "step1"
    /\ Step1Cond(loc)
    /\ loc' = SetCourts(loc, loc.courts_used - 1)
    /\ UNCHANGED <<entry, pc, heap, arg, proj, stmt, res, prev>>

\* lines 74-77
EndStep1 ==
    /\ pc = "step1"
    /\ ~Step1Cond(loc)
    /\ IF ~Exceeds(loc)
       THEN /\ pc' = "derived"
            /\ loc' = [league_cap |-> FitReturn(loc,
                         [stage |-> "courts_used", from |-> Arg.league.courts_used,
                          to |-> loc.courts_used])]
       ELSE /\ pc' = "step2"
            /\ UNCHANGED loc
    /\ UNCHANGED <<entry, heap, arg, proj, stmt, res, prev>>

\* Step 2: reduce blocks_fri, lines 79-82
ReduceFri ==
    /\ pc = "step2"
    /\ Step2Cond(loc)
    /\ loc' = Recount([loc EXCEPT !.blocks_fri = @ - 1])
    /\ UNCHANGED <<entry, pc, heap, arg, proj, stmt, res, prev>>

\* lines 84-87
EndStep2 ==
    /\ pc = "step2"
    /\ ~Step2Cond(loc)
    /\ IF ~Exceeds(loc)
       THEN /\ pc' = "derived"
            /\ loc' = [league_cap |-> FitReturn(loc,
                         [stage |-> "blocks_fri", to |-> loc.blocks_fri])]
       ELSE /\ pc' = "step3"
            /\ UNCHANGED loc
    /\ UNCHANGED <<entry, heap, arg, proj, stmt, res, prev>>

\* Step 3: reduce blocks_mon_thu, lines 89-92
ReduceMonThu ==
    /\ pc = "step3"
    /\ Step3Cond(loc)
    /\ loc' = Recount([loc EXCEPT !.blocks_mon_thu = @ - 1])
    /\ UNCHANGED <<entry, pc, heap, arg, proj, stmt, res, prev>>

\* lines 94-97
EndStep3 ==
    /\ pc = "step3"
    /\ ~Step3Cond(loc)
    /\ IF ~Exceeds(loc)
       THEN /\ pc' = "derived"
            /\ loc' = [league_cap |-> FitReturn(loc,
                         [stage |-> "blocks_mon_thu", to |-> loc.blocks_mon_thu])]
       ELSE /\ pc' = "step4"
            /\ UNCHANGED loc
    /\ UNCHANGED <<entry, heap, arg, proj, stmt, res, prev>>

\* Step 4: reduce blocks_weekend, lines 99-102
ReduceWeekend ==
    /\ pc = "step4"
    /\ Step4Cond(loc)
    /\ loc' = Recount([loc EXCEPT !.blocks_weekend = @ - 1])
    /\ UNCHANGED <<entry, pc, heap, arg, proj, stmt, res, prev>>

\* lines 104-105: the last stage reports success whatever is left
EndStep4 ==
    /\ pc = "step4"
    /\ ~Step4Cond(loc)
    /\ pc' = "derived"
    /\ loc' = [league_cap |-> FitReturn(loc,
                 [stage |-> "blocks_weekend", to |-> loc.blocks_weekend])]
    /\ UNCHANGED <<entry, heap, arg, proj, stmt, res, prev>>

DeriveLeagueCapacity ==
    \/ Derive
    \/ ReduceCourts \/ EndStep1
    \/ ReduceFri \/ EndStep2
    \/ ReduceMonThu \/ EndStep3
    \/ ReduceWeekend \/ EndStep4

(***************************************************************************)
(* engine/allocation.py                                                    *)
(***************************************************************************)
\* lines 7-14 and 19-25: the figures of the weekly allocation
weekly_allocation(fac, win, lg, corp_prime_ch_wk, corp_off_ch_wk, tourney_prime_ch_wk, tourney_off_ch_wk) ==
    LET prime_ch  == prime_hours_week(fac, win)
        total_ch  == total_court_hours_week(fac)
        off_ch    == total_ch - prime_ch
        league_ch == league_court_hours_week(win, lg)
    IN  [prime_ch      |-> prime_ch,
         off_ch        |-> off_ch,
         league_ch     |-> league_ch,
         open_prime_ch |-> Max(0, prime_ch - league_ch - corp_prime_ch_wk
                                    - tourney_prime_ch_wk),
         open_off_ch   |-> Max(0, off_ch - corp_off_ch_wk - tourney_off_ch_wk)]

\* lines 16-17: the two assertions (1e-6 court-hours is below one court-minute)
AllocationAsserts(a) ==
    /\ a.league_ch <= a.prime_ch
    /\ a.open_prime_ch >= 0 /\ a.open_off_ch >= 0

(***************************************************************************)
(* engine/revenue.py and engine/metrics.py                                 *)
(***************************************************************************)
\* x * n / d of a fixed-point figure, rounded down to the unit of x (the
\* whole multiples of d in x are multiplied apart, to keep the product small)
Frac(x, n, d) == (x \div d) * n + ((x % d) * n) \div d

per_court_from_per_person(rate_pp, players_per_court) == rate_pp * players_per_court

tier_per_court_rates(mp) ==
    LET ppc == mp.players_per_court
    IN  [community |-> [prime |-> per_court_from_per_person(mp.community_prime_pp, ppc),
                        off   |-> per_court_from_per_person(mp.community_off_pp, ppc)],
         player    |-> [prime |-> per_court_from_per_person(mp.player_prime_pp, ppc),
                        off   |-> per_court_from_per_person(mp.player_off_pp, ppc)],
         pro       |-> [prime |-> per_court_from_per_person(mp.pro_prime_pp, ppc),
                        off   |-> per_court_from_per_person(mp.pro_off_pp, ppc)]]

\* the unit of a member mix: the three shares are whole parts of their sum,
\* which is 5 for a mix in fifths and 2 for a mix in halves
MixDen(mix) == mix.pct_community + mix.pct_player + mix.pct_pro

\* weekly court revenue in dollar-minutes (dollars * 60); the utilized,
\* member and tier court-time are rounded down to the court-minute
court_rental_revenue_week_tiered(open_prime_ch_wk, open_off_ch_wk, util_prime, util_off, member_share_prime, member_share_off, member_mix, member_plans, nm_prime_per_court, nm_off_per_court) ==
    LET rates         == tier_per_court_rates(member_plans)
        util_prime_ch == Frac(open_prime_ch_wk, util_prime, 100)
        util_off_ch   == Frac(open_off_ch_wk, util_off, 100)
        mem_prime_ch  == Frac(util_prime_ch, member_share_prime, 5)
        mem_off_ch    == Frac(util_off_ch, member_share_off, 5)
        nm_prime_ch   == util_prime_ch - mem_prime_ch
        nm_off_ch     == util_off_ch - mem_off_ch
        split_tier(total) ==
            [community |-> Frac(total, member_mix.pct_community, MixDen(member_mix)),
             player    |-> Frac(total, member_mix.pct_player, MixDen(member_mix)),
             pro       |-> Frac(total, member_mix.pct_pro, MixDen(member_mix))]
        mem_prime_tier == split_tier(mem_prime_ch)
        mem_off_tier   == split_tier(mem_off_ch)
        rev_mem_prime  == mem_prime_tier.community * rates.community.prime
                            + mem_prime_tier.player * rates.player.prime
                            + mem_prime_tier.pro * rates.pro.prime
        rev_mem_off    == mem_off_tier.community * rates.community.off
                            + mem_off_tier.player * rates.player.off
                            + mem_off_tier.pro * rates.pro.off
        rev_nm_prime   == nm_prime_ch * nm_prime_per_court
        rev_nm_off     == nm_off_ch * nm_off_per_court
    IN  rev_mem_prime + rev_mem_off + rev_nm_prime + rev_nm_off

\* a member price that forgets the tier discounts
UndiscountedMemberPrice(base_price, discounts, mix) ==
    (base_price * 5 * (mix.pct_community + mix.pct_player + mix.pct_pro) * 5)
      \div MixDen(mix)

\* member slot price after tier discounts, in dollars / 25 (the mix brought
\* from its own unit to fifths)
weighted_member_league_price(base_price, discounts, mix) ==
    ((base_price * (5 - discounts.community_pct) * mix.pct_community
        + base_price * (5 - discounts.player_pct) * mix.pct_player
        + base_price * (5 - discounts.pro_pct) * mix.pct_pro) * 5)
      \div MixDen(mix)

league_weekly_slots(lg, weekly_blocks) ==
    weekly_blocks * lg.courts_used * lg.players_per_court

\* dollars
corporate_revenue_year(corp, prime) ==
    LET rate         == IF prime THEN corp.prime_rate_per_court ELSE corp.off_rate_per_court
        ch_per_event == corp.courts_used * corp.hours_per_event
        total_events_per_year ==
            corp.events_per_month * 12 + (IF ~prime THEN corp.extra_events_per_year ELSE 0)
    IN  total_events_per_year * ch_per_event * rate

\* dollars; sponsorship_share in fifths
tournaments_revenue_year(t) == Frac(4 * t.per_quarter_revenue, t.sponsorship_share, 5)

\* dollars; gross_margin and revenue_share in fifths
retail_revenue_year(r) == Frac(12 * r.monthly_sales, r.gross_margin * r.revenue_share, 25)

\* the two density metrics, dollars per court-hour rounded down: the
\* denominator is floored at 1 court-hour (60 court-minutes)
revpach(variable_rev_year, available_ch_year) ==
    PyDiv(variable_rev_year * 60, Max(60, available_ch_year))

rev_per_utilized_hour(variable_rev_year, utilized_ch_year) ==
    PyDiv(variable_rev_year * 60, Max(60, utilized_ch_year))

(***************************************************************************)
(* engine/compute.py                                                       *)
(***************************************************************************)
\* lines 23-27: dataclasses.replace builds a new LeagueConfig for the fitted
\* courts; the league object the caller's cfg holds is not written
effective_league(c, league_cap) ==
    IF league_cap.courts_used # c.league.courts_used
    THEN [c.league EXCEPT !.courts_used = league_cap.courts_used]
    ELSE c.league

\* a fit that writes the fitted league into the object it was given
CfgFittedInPlace(c, league_cap) == [c EXCEPT !.league = effective_league(c, league_cap)]

\* the caller's cfg object after lines 23-27
CfgAfterFit(c, league_cap) == c

\* lines 19-30: the allocator runs on the schedule and the effective league
ComputeAllocate ==
    /\ pc = "derived"
    /\ LET lg    == effective_league(Arg, loc.league_cap)
           alloc == weekly_allocation(Arg.facility, Arg.prime, lg, 0, 0, 0, 0)
       IN  /\ heap' = [heap EXCEPT ![arg] = CfgAfterFit(Arg, loc.league_cap)]
           /\ loc' = [league_cap |-> loc.league_cap, effective_league |-> lg,
                      alloc |-> alloc]
           /\ pc' = IF AllocationAsserts(alloc) THEN "allocated" ELSE "AssertionError"
    /\ UNCHANGED <<entry, arg, proj, stmt, res, prev>>

\* lines 48-58: the tier mix of the league's member participants
LeagueTierMix(c) ==
    IF c.league_participants.use_overall_member_mix
    THEN c.member_mix
    ELSE [pct_community |-> c.league_participants.pct_community,
          pct_player    |-> c.league_participants.pct_player,
          pct_pro       |-> c.league_participants.pct_pro]

\* lines 42-72: league revenue with participant-weighted discounting.
\* Scales: filled_slots in sixtieths; member_slots and nonmember_slots in
\* three-hundredths; disc_member_price in dollars / 25 and avg_slot_price
\* in dollars / 125; weekly_league_rev and league_rev_year are
\* dollars * 45000 (the division by 6.0 of line 71 is kept in the scale).
LeagueRevenue(c, lg, blocks) ==
    LET slots_wk        == league_weekly_slots(lg, blocks)
        filled_slots    == slots_wk * c.league.fill_rate
        lp              == c.league_participants
        member_slots    == filled_slots * lp.member_share
        nonmember_slots == filled_slots * 5 - member_slots
        disc_member_price ==
            weighted_member_league_price(c.league.price_prime_slot_6wk,
                                         c.league_discounts, LeagueTierMix(c))
        \* max(1e-9, filled_slots): only a numerator of 0 meets the floor
        avg_slot_price  ==
            IF filled_slots > 0
            THEN (member_slots * disc_member_price
                    + nonmember_slots * c.league.price_prime_slot_6wk * 25)
                   \div filled_slots
            ELSE (member_slots * disc_member_price
                    + nonmember_slots * c.league.price_prime_slot_6wk * 25)
                   * 100000000
        weekly_league_rev == filled_slots * avg_slot_price
    IN  [slots_wk          |-> slots_wk,
         filled_slots      |-> filled_slots,
         member_share      |-> lp.member_share,
         member_slots      |-> member_slots,
         nonmember_slots   |-> nonmember_slots,
         disc_member_price |-> disc_member_price,
         avg_slot_price    |-> avg_slot_price,
         weekly_league_rev |-> weekly_league_rev,
         league_rev_year   |-> weekly_league_rev * c.league.active_weeks]

\* lines 32-148: revenue by stream, density and the returned dictionary.
\* court_rev is dollars * 60, league_rev dollars * 45000; the annual streams
\* are added in whole dollars; utilized court-time is court-minutes * 100.
ComputeResult(c, league_cap, lg, alloc) ==
    LET blocks       == league_cap.weekly_blocks
        court_rev_wk == court_rental_revenue_week_tiered(
                            alloc.open_prime_ch, alloc.open_off_ch,
                            c.openplay.util_prime, c.openplay.util_off,
                            c.openplay.member_share_prime, c.openplay.member_share_off,
                            c.member_mix, c.member_plans,
                            c.pricing.nm_prime_per_court, c.pricing.nm_off_per_court)
        court_rev_year  == court_rev_wk * 52
        lr              == LeagueRevenue(c, lg, blocks)
        corp_rev_year   == corporate_revenue_year(c.corp, FALSE)
        tour_rev_year   == tournaments_revenue_year(c.tourneys)
        retail_rev_year == retail_revenue_year(c.retail)
        variable_rev_year == court_rev_year \div 60 + lr.league_rev_year \div 45000
                               + corp_rev_year + tour_rev_year + retail_rev_year
        available_ch_year   == total_court_hours_week(c.facility) * 52
        utilized_prime_wk   == alloc.open_prime_ch * c.openplay.util_prime
        utilized_offpeak_wk == alloc.open_off_ch * c.openplay.util_off
        utilized_league_wk  == alloc.league_ch * 100
        utilized_ch_year    == (utilized_prime_wk + utilized_offpeak_wk
                                  + utilized_league_wk) * 52
    IN  [weekly |-> [league_blocks    |-> blocks,
                     league_slots     |-> lr.slots_wk,
                     league_rev       |-> lr.weekly_league_rev,
                     court_rev        |-> court_rev_wk,
                     utilized_prime   |-> utilized_prime_wk,
                     utilized_offpeak |-> utilized_offpeak_wk,
                     utilized_league  |-> utilized_league_wk],
         annual |-> [league_rev   |-> lr.league_rev_year,
                     court_rev    |-> court_rev_year,
                     corp_rev     |-> corp_rev_year,
                     tourney_rev  |-> tour_rev_year,
                     retail_rev   |-> retail_rev_year,
                     variable_rev |-> variable_rev_year],
         alloc_weekly |-> alloc,
         density |-> [RevPACH      |-> revpach(variable_rev_year, available_ch_year),
                      RevPerUtilHr |-> rev_per_utilized_hour(variable_rev_year,
                                                             utilized_ch_year \div 100)],
         available_ch_year |-> available_ch_year,
         utilized_ch_year  |-> utilized_ch_year,
         prime_ch_week     |-> prime_hours_week(c.facility, c.prime),
         total_ch_week     |-> total_court_hours_week(c.facility),
         league_debug |-> [slots_wk          |-> lr.slots_wk,
                           filled_slots      |-> lr.filled_slots,
                           member_share      |-> lr.member_share,
                           member_slots      |-> lr.member_slots,
                           nonmember_slots   |-> lr.nonmember_slots,
                           disc_member_price |-> lr.disc_member_price,
                           avg_slot_price    |-> lr.avg_slot_price,
                           capacity_warnings |-> league_cap.warnings,
                           league_ch_week    |-> league_cap.league_ch_week,
                           prime_ch_week     |-> league_cap.prime_ch_week,
                           courts_used       |-> league_cap.courts_used],
         meta |-> [prime_share  |-> engine_prime_share(c),
                   prime_util   |-> c.openplay.util_prime,
                   offpeak_util |-> c.openplay.util_off]]

ComputeReturn ==
    /\ pc = "allocated"
    /\ res' = ComputeResult(Arg, loc.league_cap, loc.effective_league, loc.alloc)
    /\ pc' = IF arg = "cfg_m" THEN "row" ELSE "done"
    /\ UNCHANGED <<entry, heap, arg, loc, proj, stmt, prev>>

(***************************************************************************)
(* engine/utilization.py and engine/finance.py.  A utilization the solver  *)
(* returns is an exact fraction [n, d] with d > 0.                         *)
(***************************************************************************)
\* n / d rounded to the nearest integer, halves to even (d > 0)
RoundHalfEven(n, d) ==
    LET q == n \div d
        r == n % d
    IN  IF 2 * r > d \/ (2 * r = d /\ q % 2 = 1) THEN q + 1 ELSE q

\* f"{x:.2%}": hundredths of a percent
FmtPct2(x) == RoundHalfEven(x.n * 10000, x.d)

NoWarning == [kind |-> ""]

\* lines 18-30 with an upper clamp that lets everything through
SolveAndClampNoMax(overall_target, prime_util, prime_share) ==
    LET den == 100 * (100 - prime_share)
        offpeak_util == [n |-> 100 * overall_target - prime_share * prime_util,
                         d |-> den]
    IN  IF den = 0 THEN ZeroDivisionError
        ELSE IF offpeak_util.n * 100 < 45 * offpeak_util.d
        THEN [offpeak_util |-> [n |-> 45, d |-> 100],
              warning |-> [kind |-> "below minimum", value |-> FmtPct2(offpeak_util),
                           bound |-> 45]]
        ELSE [offpeak_util |-> offpeak_util, warning |-> NoWarning]

\* lines 18-30: solve, then clamp to [0.45, 0.80]; inputs in percent
SolveAndClamp(overall_target, prime_util, prime_share) ==
    LET den == 100 * (100 - prime_share)
        offpeak_util == [n |-> 100 * overall_target - prime_share * prime_util,
                         d |-> den]
    IN  IF den = 0 THEN ZeroDivisionError
        ELSE IF offpeak_util.n * 100 < 45 * offpeak_util.d
        THEN [offpeak_util |-> [n |-> 45, d |-> 100],
              warning |-> [kind |-> "below minimum", value |-> FmtPct2(offpeak_util),
                           bound |-> 45]]
        ELSE IF offpeak_util.n * 100 > 80 * offpeak_util.d
        THEN [offpeak_util |-> [n |-> 80, d |-> 100],
              warning |-> [kind |-> "exceeds maximum", value |-> FmtPct2(offpeak_util),
                           bound |-> 80]]
        ELSE [offpeak_util |-> offpeak_util, warning |-> NoWarning]

\* a solver without the prime_share >= 1.0 guard
SolveUnguarded(overall_target, prime_util, prime_share) ==
    SolveAndClamp(overall_target, prime_util, prime_share)

solve_offpeak_util(overall_target, prime_util, prime_share) ==
    IF prime_share >= 100
    THEN [offpeak_util |-> [n |-> 0, d |-> 1],
          warning |-> [kind |-> "Prime share is 100%"]]
    ELSE SolveAndClamp(overall_target, prime_util, prime_share)

Infinity == [inf |-> TRUE]

\* ebitda / debt_service in hundredths, rounded down; money is a whole
\* number of its unit, so debt_service > 1e-9 is debt_service > 0
dscr(ebitda, debt_service) ==
    IF debt_service > 0 THEN PyDiv(ebitda * 100, debt_service) ELSE Infinity

(***************************************************************************)
(* engine/models.py: the configuration objects and their default values    *)
(***************************************************************************)
Pricing == [nm_prime_per_court |-> 65, nm_off_per_court |-> 56]

CorpConfig == [prime_rate_per_court |-> 200, off_rate_per_court |-> 170,
               events_per_month |-> 2, hours_per_event |-> 6, courts_used |-> 4,
               extra_events_per_year |-> 8]

Tournaments == [per_quarter_revenue |-> 9000, sponsorship_share |-> 2]

Retail == [monthly_sales |-> 3000, gross_margin |-> 1, revenue_share |-> 2]

MemberPlans == [community_prime_pp |-> 14, community_off_pp |-> 11,
                player_prime_pp |-> 9, player_off_pp |-> 0,
                pro_prime_pp |-> 0, pro_off_pp |-> 0, players_per_court |-> 4,
                community_monthly_fee |-> 0, player_monthly_fee |-> 99,
                pro_monthly_fee |-> 189]

MemberMix == [pct_community |-> 1, pct_player |-> 3, pct_pro |-> 1]

OpenPlay == [util_prime |-> 95, util_off |-> 55,
             member_share_prime |-> 3, member_share_off |-> 3]

\* Config(...): a configuration object built from its parts.  __post_init__
\* (lines 181-209) sets openplay.util_off to the solver's answer for an
\* overall target of 0.73, here rounded down to the percent.
Config(facility, prime, league, league_discounts, league_participants, member_mix) ==
    LET self == [facility |-> facility, prime |-> prime, pricing |-> Pricing,
                 league |-> league, corp |-> CorpConfig, tourneys |-> Tournaments,
                 retail |-> Retail, member_plans |-> MemberPlans,
                 league_discounts |-> league_discounts,
                 league_participants |-> league_participants,
                 member_mix |-> member_mix, openplay |-> OpenPlay]
        prime_share  == engine_prime_share(self).value
        offpeak_util == solve_offpeak_util(73, self.openplay.util_prime,
                                           prime_share).offpeak_util
    IN  [self EXCEPT !.openplay.util_off = (offpeak_util.n * 100) \div offpeak_util.d]

(***************************************************************************)
(* The callers of compute: the configurations they build                   *)
(***************************************************************************)
\* 14-hour days, and one court open 4 hours a day (less than its prime windows)
Facilities ==
    [courts : 1..MaxCourts, hours_per_day : {840}]
      \cup {[courts |-> 1, hours_per_day |-> 240]}

PrimeWindows ==
    [mon_thu_start : {960}, mon_thu_end : {960, 1200, 1320},
     fri_start : {960}, fri_end : {960, 1260},
     weekend_morning_hours : {0, 100, 240}]

\* session_len_h and buffer_min: none, 60 + 0 and 90 + 10 minutes
Sessions == {<<0, 0>>, <<60, 0>>, <<90, 10>>}

LeagueConfigs ==
    {[session_len_h |-> sb[1], buffer_min |-> sb[2], weeknights |-> wn,
      weekend_morns |-> wm, courts_used |-> cu, players_per_court |-> 4,
      fill_rate |-> 54, active_weeks |-> 46, price_prime_slot_6wk |-> 6] :
        sb \in Sessions, wn \in {0, 4, 5}, wm \in {0, 2}, cu \in 1..MaxCourtsUsed}

\* one-hour sessions with ten-minute buffers, on prime windows that hold
\* exactly three blocks on a weeknight and six on a weekend morning
ExactFits ==
    {<<[mon_thu_start |-> 960, mon_thu_end |-> 1170, fri_start |-> 960,
        fri_end |-> 1170, weekend_morning_hours |-> 420],
       [session_len_h |-> 60, buffer_min |-> 10, weeknights |-> 4,
        weekend_morns |-> 1, courts_used |-> cu, players_per_court |-> 4,
        fill_rate |-> 54, active_weeks |-> 46, price_prime_slot_6wk |-> 6]>> :
        cu \in 1..MaxCourtsUsed}

LeagueDiscounts == [community_pct |-> 0, player_pct |-> 1, pro_pct |-> 1]

LeagueParticipants ==
    [member_share |-> 2, use_overall_member_mix |-> TRUE,
     pct_community |-> 1, pct_player |-> 3, pct_pro |-> 1]

Idle == [idle |-> TRUE]

\* a caller hands compute a configuration of any schedule geometry
InitCompute ==
    /\ entry = "compute"
    /\ pc = "call"
    /\ \E f \in Facilities,
          wl \in (PrimeWindows \X LeagueConfigs) \cup ExactFits :
         heap = [cfg |-> Config(f, wl[1], wl[2], LeagueDiscounts, LeagueParticipants,
                                MemberMix),
                 cfg_m |-> None]
    /\ arg = "cfg"
    /\ loc = Idle /\ proj = Idle /\ stmt = Idle
    /\ res = None /\ prev = None

\* the caller calls the same entry point again with the same configuration
\* object
CallAgain ==
    /\ entry \in {"compute", "build_24_month_projection", "build_financial_statements"}
    /\ pc = "done" /\ prev = None
    /\ prev' = [cfg |-> heap.cfg, res |-> res]
    /\ pc' = IF entry = "compute" THEN "call" ELSE "enter"
    /\ loc' = Idle /\ proj' = Idle /\ stmt' = Idle
    /\ UNCHANGED <<entry, heap, arg, res>>

Compute == DeriveLeagueCapacity \/ ComputeAllocate \/ ComputeReturn

NextCompute == Compute \/ CallAgain

SpecCompute == InitCompute /\ [][NextCompute]_vars

(***************************************************************************)
(* The callers of compute that vary the league's pricing                   *)
(***************************************************************************)
\* schedules that between them need every stage of the auto-fitter
SmallGeometries ==
    {[courts |-> 2, courts_used |-> 2, mon_thu_end |-> 1320, fri_end |-> 1260,
      weekend_morning_hours |-> 240],
     [courts |-> 2, courts_used |-> 4, mon_thu_end |-> 1320, fri_end |-> 1260,
      weekend_morning_hours |-> 240],
     [courts |-> 1, courts_used |-> 4, mon_thu_end |-> 1320, fri_end |-> 1260,
      weekend_morning_hours |-> 240],
     [courts |-> 1, courts_used |-> 2, mon_thu_end |-> 960, fri_end |-> 960,
      weekend_morning_hours |-> 100]}

GeomFacility(g) == [courts |-> g.courts, hours_per_day |-> 840]

GeomPrime(g) ==
    [mon_thu_start |-> 960, mon_thu_end |-> g.mon_thu_end, fri_start |-> 960,
     fri_end |-> g.fri_end, weekend_morning_hours |-> g.weekend_morning_hours]

PricedLeagues(g) ==
    {[session_len_h |-> 90, buffer_min |-> 10, weeknights |-> wn, weekend_morns |-> 0,
      courts_used |-> g.courts_used, players_per_court |-> 4, fill_rate |-> fr,
      active_weeks |-> aw, price_prime_slot_6wk |-> p] :
        wn \in {0, 1}, fr \in {0, 54}, aw \in {0, 46}, p \in {0, 6}}

DiscountTables ==
    {[community_pct |-> 0, player_pct |-> 0, pro_pct |-> 0],
     [community_pct |-> 0, player_pct |-> 1, pro_pct |-> 1],
     [community_pct |-> 0, player_pct |-> 0, pro_pct |-> 2]}

MemberMixes ==
    {[pct_community |-> 1, pct_player |-> 3, pct_pro |-> 1],
     [pct_community |-> 5, pct_player |-> 0, pct_pro |-> 0]}

\* member shares from none to all of the league's players, in fifths
Shares == 0..5

ParticipantTables ==
    [member_share : {0, 2}, use_overall_member_mix : BOOLEAN,
     pct_community : {3}, pct_player : {2}, pct_pro : {0}]

InitLeagueRev ==
    /\ entry = "compute"
    /\ pc = "call"
    /\ \E g \in SmallGeometries, d \in DiscountTables, lp \in ParticipantTables,
          mix \in MemberMixes :
         \E lg \in PricedLeagues(g) :
            heap = [cfg |-> Config(GeomFacility(g), GeomPrime(g), lg, d, lp, mix),
                    cfg_m |-> None]
    /\ arg = "cfg"
    /\ loc = Idle /\ proj = Idle /\ stmt = Idle
    /\ res = None /\ prev = None

\* the caller builds a second configuration that differs from the first in
\* a higher league member_share only, and calls compute on it
RaiseMemberShare ==
    /\ entry = "compute" /\ pc = "done" /\ prev = None
    /\ \E ms \in Shares :
         /\ ms > heap.cfg.league_participants.member_share
         /\ heap' = [heap EXCEPT !.cfg.league_participants.member_share = ms]
    /\ prev' = [cfg |-> heap.cfg, res |-> res]
    /\ pc' = "call"
    /\ loc' = Idle
    /\ UNCHANGED <<entry, arg, proj, stmt, res>>

NextLeagueRev == Compute \/ RaiseMemberShare

SpecLeagueRev == InitLeagueRev /\ [][NextLeagueRev]_vars

(***************************************************************************)
(* Claims about the auto-fitter and the allocator inside compute           *)
(***************************************************************************)
ValidSchedule(c) ==
    /\ c.facility.courts >= 1
    /\ c.prime.mon_thu_end - c.prime.mon_thu_start >= 0
    /\ c.prime.fri_end - c.prime.fri_start >= 0
    /\ c.prime.weekend_morning_hours >= 0

\* C1: whenever derive_league_capacity returns for a facility with at least
\* one court, non-negative prime windows and a positive block length, its
\* league_ch_week is at most its prime_ch_week, whatever courts_used was asked
C1_LeagueFitsPrime ==
    (pc = "derived" /\ ValidSchedule(Arg)
       /\ Arg.league.session_len_h + Arg.league.buffer_min > 0)
      => loc.league_cap.league_ch_week <= loc.league_cap.prime_ch_week

\* the ladder ran to its last stage: more courts were asked for than exist
\* and the weekend blocks had to go as well
C1_Witness ==
    /\ pc = "derived"
    /\ ValidSchedule(Arg)
    /\ Arg.league.courts_used > Arg.facility.courts
    /\ Len(loc.league_cap.warnings) = 2
    /\ loc.league_cap.warnings[2].stage = "blocks_weekend"
    /\ loc.league_cap.blocks_weekend = 0
    /\ loc.league_cap.prime_ch_week > 0

\* C2: for a valid schedule with weeknights in 0..5 and weekend_morns in
\* 0..2, compute never trips the allocator's league_ch <= prime_ch assertion
C2_ComputeNeverTripsAssertion ==
    (ValidSchedule(Arg) /\ Arg.league.weeknights \in 0..5
       /\ Arg.league.weekend_morns \in 0..2)
      => pc # "AssertionError"

(***************************************************************************)
(* Claims about league revenue                                             *)
(***************************************************************************)
\* the running call's configuration is the previous call's but for a higher
\* league member_share
MemberShareRaised ==
    /\ pc = "done" /\ prev # None
    /\ heap.cfg.league_participants.member_share
         > prev.cfg.league_participants.member_share
    /\ [heap.cfg EXCEPT !.league_participants.member_share =
            prev.cfg.league_participants.member_share] = prev.cfg

AnyTierDiscount(c) ==
    \/ c.league_discounts.community_pct > 0
    \/ c.league_discounts.player_pct > 0
    \/ c.league_discounts.pro_pct > 0

\* the discount of the tiers the league's members are actually in, the mix
\* being the overall member mix or the participants' own
MixWeightedDiscount(c) ==
    IF c.league_participants.use_overall_member_mix
    THEN c.league_discounts.community_pct * c.member_mix.pct_community
           + c.league_discounts.player_pct * c.member_mix.pct_player
           + c.league_discounts.pro_pct * c.member_mix.pct_pro
    ELSE c.league_discounts.community_pct * c.league_participants.pct_community
           + c.league_discounts.player_pct * c.league_participants.pct_player
           + c.league_discounts.pro_pct * c.league_participants.pct_pro

\* C6 as claimed: with any tier discount > 0, raising member_share strictly
\* lowers the weekly and the annual league revenue
C6_AnyDiscountLowersRevenue ==
    (MemberShareRaised /\ AnyTierDiscount(heap.cfg))
      => /\ res.weekly.league_rev < prev.res.weekly.league_rev
         /\ res.annual.league_rev < prev.res.annual.league_rev

\* C6 amended: raising member_share strictly lowers the weekly league revenue
\* when a tier that has league members in it is discounted, the slot price is
\* positive and some slots are filled; and the annual revenue too when in
\* addition active_weeks > 0
C6_DiscountedMembersLowerRevenue ==
    (MemberShareRaised
       /\ MixWeightedDiscount(heap.cfg) > 0
       /\ heap.cfg.league.price_prime_slot_6wk > 0
       /\ heap.cfg.league.fill_rate > 0
       /\ res.weekly.league_slots > 0)
      => /\ res.weekly.league_rev < prev.res.weekly.league_rev
         /\ (heap.cfg.league.active_weeks > 0
               => res.annual.league_rev < prev.res.annual.league_rev)

C6_Witness ==
    /\ MemberShareRaised
    /\ MixWeightedDiscount(heap.cfg) > 0
    /\ heap.cfg.league.price_prime_slot_6wk > 0
    /\ heap.cfg.league.fill_rate > 0
    /\ heap.cfg.league.active_weeks > 0
    /\ res.weekly.league_slots > 0
    /\ res.annual.league_rev < prev.res.annual.league_rev
    /\ res.league_debug.capacity_warnings # <<>>

(***************************************************************************)
(* engine/capital.py.  Money is in tenths of a dollar.                     *)
(***************************************************************************)
\* a loan that is not kept from going negative
LoanUnclamped(total_uses, ti_allowance, owner_equity) ==
    total_uses - ti_allowance - owner_equity

\* a loan that ignores the owner's equity
LoanIgnoringEquity(total_uses, ti_allowance, owner_equity) ==
    Max(0, total_uses - ti_allowance)

\* line 71: the loan that closes the gap, never negative
SbaLoan(total_uses, ti_allowance, owner_equity) ==
    Max(0, total_uses - ti_allowance - owner_equity)

\* contingency_pct in tenths, ti_per_sf in tenths of a dollar
calculate_capital_structure(a) ==
    LET contingency   == Frac(a.leasehold_improvements, a.contingency_pct, 10)
        total_uses    == a.leasehold_improvements + a.equipment + a.ffe_signage
                           + a.pre_opening + a.working_capital + contingency
        ti_allowance  == a.ti_per_sf * a.square_feet
        sba_loan      == SbaLoan(total_uses, ti_allowance, a.owner_equity)
        total_sources == ti_allowance + a.owner_equity + sba_loan
        difference    == Abs(total_sources - total_uses)
    IN  [leasehold_improvements |-> a.leasehold_improvements,
         equipment       |-> a.equipment,
         ffe_signage     |-> a.ffe_signage,
         pre_opening     |-> a.pre_opening,
         working_capital |-> a.working_capital,
         contingency     |-> contingency,
         total_uses      |-> total_uses,
         ti_allowance    |-> ti_allowance,
         owner_equity    |-> a.owner_equity,
         sba_loan        |-> sba_loan,
         total_sources   |-> total_sources,
         balanced        |-> difference < 10,
         difference      |-> difference]

\* pre-opening, the TI allowance ($25/sf on 17,139 sf) and the owner's
\* equity are fixed in compute_loan_to_balance
compute_loan_to_balance(finance_config) ==
    LET leasehold       == finance_config.leasehold_improvements
        equipment       == finance_config.equipment
        pre_opening     == 500000
        working_capital == finance_config.wc_reserve_start
        contingency     == Frac(leasehold, 1, 10)
        total_uses      == leasehold + equipment + pre_opening + working_capital
                             + contingency
        ti_allowance    == 250 * 17139
        owner_equity    == 2000000
    IN  Max(0, total_uses - ti_allowance - owner_equity)

CalculateCapitalStructure ==
    /\ entry = "calculate_capital_structure" /\ pc = "call"
    /\ res' = calculate_capital_structure(heap.cfg)
    /\ pc' = "done"
    /\ UNCHANGED <<entry, heap, arg, loc, proj, stmt, prev>>

ComputeLoanToBalance ==
    /\ entry = "compute_loan_to_balance" /\ pc = "call"
    /\ res' = compute_loan_to_balance(heap.cfg)
    /\ pc' = "done"
    /\ UNCHANGED <<entry, heap, arg, loc, proj, stmt, prev>>

(***************************************************************************)
(* The callers of the capital structure                                    *)
(***************************************************************************)
\* tenths of a dollar: amounts around the point where the TI allowance and
\* the equity cover the uses, and the amounts of the default configuration
CapitalArgs ==
    [leasehold_improvements : {0, 250, 9940000}, equipment : {0, 105, 2200000},
     ffe_signage : {0}, pre_opening : {0, 500000}, working_capital : {0, 500000},
     contingency_pct : {0, 1}, ti_per_sf : {0, 250}, square_feet : {0, 2, 17139},
     owner_equity : {0, 100, 2000000}]

EquityRaises == {0, 5, 100, 500000}

FinanceArgs ==
    [leasehold_improvements : {0, 1000000, 9940000},
     equipment : {0, 784740, 784750, 784755, 2200000},
     wc_reserve_start : {0, 5000000}]

InitCapital ==
    /\ \/ entry = "calculate_capital_structure"
          /\ \E a \in CapitalArgs : heap = [cfg |-> a, cfg_m |-> None]
       \/ entry = "compute_loan_to_balance"
          /\ \E f \in FinanceArgs : heap = [cfg |-> f, cfg_m |-> None]
    /\ pc = "call"
    /\ arg = "cfg"
    /\ loc = Idle /\ proj = Idle /\ stmt = Idle
    /\ res = None /\ prev = None

\* the caller asks again with more owner equity and everything else as before
RaiseOwnerEquity ==
    /\ entry = "calculate_capital_structure" /\ pc = "done" /\ prev = None
    /\ \E x \in EquityRaises :
         heap' = [heap EXCEPT !.cfg.owner_equity = @ + x]
    /\ prev' = [cfg |-> heap.cfg, res |-> res]
    /\ pc' = "call"
    /\ UNCHANGED <<entry, arg, loc, proj, stmt, res>>

NextCapital == CalculateCapitalStructure \/ ComputeLoanToBalance \/ RaiseOwnerEquity

SpecCapital == InitCapital /\ [][NextCapital]_vars

(***************************************************************************)
(* Claims about the capital structure                                      *)
(***************************************************************************)
\* the call that just returned had the previous call's inputs but for an
\* owner_equity raised by x
EquityRaisedBy(x) ==
    /\ entry = "calculate_capital_structure" /\ pc = "done" /\ prev # None
    /\ heap.cfg = [prev.cfg EXCEPT !.owner_equity = @ + x]

\* C7 as claimed: raising owner_equity by X >= 0 lowers sba_loan by exactly
\* X, for all inputs
C7_EquityLowersLoanOneToOne ==
    \A x \in EquityRaises :
        EquityRaisedBy(x) => prev.res.sba_loan - res.sba_loan = x

\* C7 amended: raising owner_equity by X >= 0 lowers sba_loan by exactly X
\* whenever the raised equity and the TI allowance together do not exceed
\* the total uses (the loan is not clamped at 0)
C7_EquityLowersUnclampedLoan ==
    \A x \in EquityRaises :
        (EquityRaisedBy(x)
           /\ heap.cfg.ti_per_sf * heap.cfg.square_feet + heap.cfg.owner_equity
                <= res.total_uses)
          => prev.res.sba_loan - res.sba_loan = x

C7_Witness ==
    \E x \in EquityRaises :
        /\ x > 0
        /\ EquityRaisedBy(x)
        /\ heap.cfg.ti_per_sf * heap.cfg.square_feet + heap.cfg.owner_equity
             <= res.total_uses
        /\ res.sba_loan > 0
        /\ prev.res.sba_loan = res.sba_loan + x

\* sources less uses of the loan compute_loan_to_balance returned
LoanToBalanceExcess ==
    LET uses == heap.cfg.leasehold_improvements + heap.cfg.equipment + 500000
                  + heap.cfg.wc_reserve_start
                  + (heap.cfg.leasehold_improvements \div 10)
    IN  (250 * 17139 + 2000000 + res) - uses

ReturnOrRaise(value) ==
    /\ res' = value
    /\ pc' = IF value = ZeroDivisionError THEN "ZeroDivisionError" ELSE "done"
    /\ UNCHANGED <<entry, heap, arg, loc, proj, stmt, prev>>

SolveOffpeakUtil ==
    /\ entry = "solve_offpeak_util" /\ pc = "call"
    /\ ReturnOrRaise(solve_offpeak_util(heap.cfg.overall_target, heap.cfg.prime_util,
                                        heap.cfg.prime_share))

Dscr ==
    /\ entry = "dscr" /\ pc = "call"
    /\ ReturnOrRaise(dscr(heap.cfg.ebitda, heap.cfg.debt_service))

Revpach ==
    /\ entry = "revpach" /\ pc = "call"
    /\ ReturnOrRaise(revpach(heap.cfg.variable_rev_year, heap.cfg.available_ch_year))

RevPerUtilizedHour ==
    /\ entry = "rev_per_utilized_hour" /\ pc = "call"
    /\ ReturnOrRaise(rev_per_utilized_hour(heap.cfg.variable_rev_year,
                                           heap.cfg.utilized_ch_year))

EnginePrimeShare ==
    /\ entry = "engine_prime_share" /\ pc = "call"
    /\ ReturnOrRaise(engine_prime_share(heap.cfg))

\* weekly_allocation called with corporate and tournament court-time: it
\* returns the dictionary of lines 19-25 or fails one of its assertions
WeeklyAllocation ==
    /\ entry = "weekly_allocation" /\ pc = "call"
    /\ LET a     == heap.cfg
           alloc == weekly_allocation(a.fac, a.win, a.lg, a.corp_prime_ch_wk,
                                      a.corp_off_ch_wk, a.tourney_prime_ch_wk,
                                      a.tourney_off_ch_wk)
       IN  IF a.lg.session_len_h + a.lg.buffer_min = 0
           THEN pc' = "ZeroDivisionError" /\ UNCHANGED res
           ELSE IF AllocationAsserts(alloc)
                THEN pc' = "done" /\ res' = alloc
                ELSE pc' = "AssertionError" /\ UNCHANGED res
    /\ UNCHANGED <<entry, heap, arg, loc, proj, stmt, prev>>

(***************************************************************************)
(* The callers of the solver, the DSCR and the density metrics             *)
(***************************************************************************)
SolverArgs ==
    [overall_target : {40, 45, 46, 73, 80, 85}, prime_util : {0, 95, 100},
     prime_share : {0, 30, 38, 99, 100, 120}]

DscrArgs == [ebitda : {-500, 0, 1000}, debt_service : {-100, 0, 1, 400}]

RevpachArgs == [variable_rev_year : {0, 1000}, available_ch_year : {0, 30, 60, 12000}]

RevPerUtilArgs == [variable_rev_year : {0, 1000}, utilized_ch_year : {0, 30, 60, 12000}]

PrimeShareArgs ==
    [facility : [courts : {0, 1, 4}, hours_per_day : {0, 840}],
     prime : [mon_thu_start : {960}, mon_thu_end : {960, 1320}, fri_start : {960},
              fri_end : {1260}, weekend_morning_hours : {0, 240}]]

\* court-minutes of corporate and tournament bookings beside a 90 + 10 minute
\* league on a two-court, 14-hour facility with the default prime windows
AllocationArgs ==
    [fac : {[courts |-> 2, hours_per_day |-> 840]},
     win : {[mon_thu_start |-> 960, mon_thu_end |-> 1320, fri_start |-> 960,
             fri_end |-> 1260, weekend_morning_hours |-> 240]},
     lg  : {[session_len_h |-> 90, buffer_min |-> 10, weeknights |-> wn,
             weekend_morns |-> 1, courts_used |-> cu] :
               wn \in {4, 5}, cu \in {0, 2, 4}},
     corp_prime_ch_wk : {0, 600, 2400}, corp_off_ch_wk : {0, 600, 8000},
     tourney_prime_ch_wk : {0, 1200}, tourney_off_ch_wk : {0, 480}]

InitUtil ==
    /\ \/ entry = "solve_offpeak_util"
          /\ \E a \in SolverArgs : heap = [cfg |-> a, cfg_m |-> None]
       \/ entry = "dscr"
          /\ \E a \in DscrArgs : heap = [cfg |-> a, cfg_m |-> None]
       \/ entry = "revpach"
          /\ \E a \in RevpachArgs : heap = [cfg |-> a, cfg_m |-> None]
       \/ entry = "rev_per_utilized_hour"
          /\ \E a \in RevPerUtilArgs : heap = [cfg |-> a, cfg_m |-> None]
       \/ entry = "engine_prime_share"
          /\ \E a \in PrimeShareArgs : heap = [cfg |-> a, cfg_m |-> None]
       \/ entry = "weekly_allocation"
          /\ \E a \in AllocationArgs : heap = [cfg |-> a, cfg_m |-> None]
    /\ pc = "call"
    /\ arg = "cfg"
    /\ loc = Idle /\ proj = Idle /\ stmt = Idle
    /\ res = None /\ prev = None

NextUtil ==
    \/ SolveOffpeakUtil \/ Dscr \/ Revpach \/ RevPerUtilizedHour
    \/ EnginePrimeShare \/ WeeklyAllocation

SpecUtil == InitUtil /\ [][NextUtil]_vars

(***************************************************************************)
(* Claims about the solver and the zero denominators                       *)
(***************************************************************************)
\* C9: zero denominators never raise: the solver with prime_share >= 1
\* returns 0.0 and a non-empty warning; dscr with debt_service <= 1e-9
\* returns infinity; revpach and rev_per_utilized_hour divide by at least 1
\* court-hour; engine_prime_share returns 0 when there are no court-hours
C9_ZeroDenominatorsNeverRaise ==
    /\ pc # "ZeroDivisionError"
    /\ (entry = "solve_offpeak_util" /\ pc # "call" /\ heap.cfg.prime_share >= 100)
         => (pc = "done" /\ res.offpeak_util.n = 0 /\ res.warning # NoWarning)
    /\ (entry = "dscr" /\ pc # "call" /\ heap.cfg.debt_service <= 0)
         => (pc = "done" /\ res = Infinity)
    /\ (entry = "revpach" /\ pc # "call" /\ heap.cfg.available_ch_year <= 60)
         => (pc = "done" /\ res = Float(heap.cfg.variable_rev_year))
    /\ (entry = "rev_per_utilized_hour" /\ pc # "call"
          /\ heap.cfg.utilized_ch_year <= 60)
         => (pc = "done" /\ res = Float(heap.cfg.variable_rev_year))
    /\ (entry = "engine_prime_share" /\ pc # "call"
          /\ heap.cfg.facility.courts * heap.cfg.facility.hours_per_day = 0)
         => (pc = "done" /\ res = Float(0))

C9_Witness ==
    /\ entry = "solve_offpeak_util" /\ pc = "done"
    /\ heap.cfg.prime_share = 100
    /\ res.offpeak_util.n = 0
    /\ res.warning.kind = "Prime share is 100%"

\* the unclamped solution (overall_target - s * prime_util) / (1 - s) of the
\* call's inputs, as a fraction with a positive denominator
Unclamped ==
    [n |-> 100 * heap.cfg.overall_target
             - heap.cfg.prime_share * heap.cfg.prime_util,
     d |-> 100 * (100 - heap.cfg.prime_share)]

SameFraction(x, y) == x.n * y.d = y.n * x.d

\* C10: for prime_share < 1 the solver returns a value in [0.45, 0.80]: the
\* unclamped solution with an empty warning when that is inside the band,
\* 0.45 with a 'below minimum' warning when it is below, 0.80 with an
\* 'exceeds maximum' warning when it is above; the warning is non-empty
\* exactly when the value was clamped, and carries the unclamped value
C10_SolverClampsToBand ==
    (entry = "solve_offpeak_util" /\ pc = "done" /\ heap.cfg.prime_share < 100)
      => LET u == Unclamped
             v == res.offpeak_util
         IN  /\ 45 * v.d <= 100 * v.n /\ 100 * v.n <= 80 * v.d
             /\ (45 * u.d <= 100 * u.n /\ 100 * u.n <= 80 * u.d)
                  => (SameFraction(v, u) /\ res.warning = NoWarning)
             /\ 100 * u.n < 45 * u.d
                  => /\ SameFraction(v, [n |-> 45, d |-> 100])
                     /\ res.warning.kind = "below minimum"
                     /\ res.warning.value = FmtPct2(u)
             /\ 100 * u.n > 80 * u.d
                  => /\ SameFraction(v, [n |-> 80, d |-> 100])
                     /\ res.warning.kind = "exceeds maximum"
                     /\ res.warning.value = FmtPct2(u)
             /\ (res.warning # NoWarning) <=> ~SameFraction(v, u)

C10_Witness ==
    /\ entry = "solve_offpeak_util" /\ pc = "done"
    /\ heap.cfg.prime_share = 30 /\ heap.cfg.prime_util = 95
    /\ heap.cfg.overall_target = 85
    /\ res.offpeak_util = [n |-> 80, d |-> 100]
    /\ res.warning.kind = "exceeds maximum"
    /\ res.warning.value = 8071

(***************************************************************************)
(* engine/models.py: growth, seasonality, costs and finance.  Money is in  *)
(* tenths of a dollar; rates are whole percent; weeks are hundredths.      *)
(***************************************************************************)
Seasonality ==
    [weeks_per_month |-> <<435, 400, 435, 435, 435, 435, 435, 435, 435, 435, 435, 400>>,
     \* thousandths
     league_week_fractions |-> <<83, 83, 83, 83, 83, 80, 80, 80, 83, 83, 83, 63>>]

CostsConfig ==
    [fixed_monthly_base |-> 600000, fixed_inflation_annual |-> 3,
     variable_pct_of_variable_rev |-> 15, staff_cost_per_utilized_ch |-> 50,
     rent_monthly |-> 370000, rent_abatement_months |-> 0, rent_escalator_pct |-> 3]

\* r in hundredths; start_date as year and month
GrowthConfig ==
    [start_date |-> [year |-> 2026, month |-> 8], months |-> 24,
     K |-> 350, r |-> 35, t_mid |-> 8, start_members |-> 50]

\* the fields of FinanceConfig, and the tax and allocation fields that
\* build_financial_statements reads from cfg.finance
FinanceConfig ==
    [loan_amount |-> 12000000, apr |-> 9, term_years |-> 10,
     wc_reserve_start |-> 2000000, leasehold_improvements |-> 9940000,
     equipment |-> 2200000, depreciation_years_leasehold |-> 10,
     depreciation_years_equipment |-> 7, corporate_tax_rate |-> 21,
     nol_carryforward_start |-> 0, state_tax_rate |-> 5, local_tax_rate |-> 0,
     opex_allocations |-> [payroll |-> 50, professional_fees |-> 10],
     payroll_split_salary_pct |-> 83, payroll_split_taxes_pct |-> 17,
     prof_fees_outside_services_pct |-> 50, prof_fees_accounting_legal_pct |-> 50]

\* a Config with the four objects the projection reads
FullConfig(c, growth, costs, finance) ==
    c @@ [growth |-> growth, seasonality |-> Seasonality, costs |-> costs,
          finance |-> finance]

(***************************************************************************)
(* engine/finance.py: the amortization schedule                            *)
(***************************************************************************)
\* r (1 + r)^n / ((1 + r)^n - 1) for r = apr / 12 and n = 12 term_years, in
\* hundred-thousandths, for the loans the callers below take
AnnuityFactor(apr, term_years) ==
    CASE apr = 9 /\ term_years = 10 -> 1267
      [] apr = 12 /\ term_years = 1 -> 8885

monthly_payment(principal, apr, term_years) ==
    LET n == term_years * 12
    IN  IF n = 0 THEN ZeroDivisionError
        ELSE IF apr = 0 THEN PyDiv(principal, n)
        ELSE Float(Frac(principal, AnnuityFactor(apr, term_years), 100000))

RECURSIVE AmortizationRows(_, _, _, _)
\* lines 19-28: the loop of amortization_schedule
AmortizationRows(pmt, bal, apr, months) ==
    IF months <= 0 THEN <<>>
    ELSE LET interest      == Frac(bal, apr, 1200)
             principal_pay == Max(0, pmt - interest)
             balance       == Max(0, bal - principal_pay)
         IN  <<[payment |-> pmt, interest |-> interest,
                principal |-> principal_pay, balance |-> balance]>>
               \o AmortizationRows(pmt, balance, apr, months - 1)

amortization_schedule(principal, apr, term_years, months) ==
    LET pmt == monthly_payment(principal, apr, term_years)
    IN  IF pmt = ZeroDivisionError THEN ZeroDivisionError
        ELSE AmortizationRows(pmt.value, principal, apr, months)

(***************************************************************************)
(* engine/rent.py                                                          *)
(***************************************************************************)
\* (22.50 + 3.43) * 17139 / 12 dollars, the defaults of lines 6-8
BaseMonthlyRent == 370345

RECURSIVE Compound(_, _, _)
\* x * (1 + pct / 100) ** years
Compound(x, pct, years) ==
    IF years <= 0 THEN x ELSE Compound(Frac(x, 100 + pct, 100), pct, years - 1)

calculate_monthly_rent(month, annual_escalator, abatement_months) ==
    IF month < abatement_months THEN 0
    ELSE Compound(BaseMonthlyRent, annual_escalator, month \div 12)

calculate_total_fixed_opex(month, non_rent_fixed, annual_escalator, rent_abatement_months, non_rent_inflation) ==
    LET rent == calculate_monthly_rent(month, annual_escalator, rent_abatement_months)
        non_rent_inflated == Compound(non_rent_fixed, non_rent_inflation, month \div 12)
    IN  [rent |-> rent, non_rent |-> non_rent_inflated,
         total |-> rent + non_rent_inflated]

(***************************************************************************)
(* engine/projections.py                                                   *)
(***************************************************************************)
\* math.exp(-r * k) in millionths for k = 0..24 months from the midpoint,
\* for the growth rates r = 0.35 and r = 1.0
ExpNeg(r, k) ==
    CASE r = 35 ->
           <<1000000, 704688, 496585, 349938, 246597, 173774, 122456, 86294, 60810,
             42852, 30197, 21280, 14996, 10567, 7447, 5248, 3698, 2606, 1836, 1294,
             912, 643, 453, 319, 225>>[k + 1]
      [] r = 100 ->
           <<1000000, 367879, 135335, 49787, 18316, 6738, 2479, 912, 335, 123, 45,
             17, 6, 2, 1, 0, 0, 0, 0, 0, 0, 0, 0, 0, 0>>[k + 1]

\* a curve that falls from K: the exponent has the sign of t - t_mid
LogisticFalling(t, K, r, t_mid, start_members) ==
    LET E    == ExpNeg(r, Abs(t - t_mid))
        den  == 1000000 + E
        base == IF t <= t_mid THEN K * 1000000 ELSE K * E
    IN  [n |-> Min(K * den, Max(start_members * den, base)), d |-> den]

\* lines 11-12: K / (1 + exp(-r (t - t_mid))), kept between start_members
\* and K; the value is the fraction n / d
logistic_members(t, K, r, t_mid, start_members) ==
    LET E    == ExpNeg(r, Abs(t - t_mid))
        den  == 1000000 + E
        base == IF t >= t_mid THEN K * 1000000 ELSE K * E
    IN  [n |-> Min(K * den, Max(start_members * den, base)), d |-> den]

RECURSIVE SumSeq(_)
SumSeq(xs) == IF xs = <<>> THEN 0 ELSE Head(xs) + SumSeq(Tail(xs))

\* lines 21-24: each month's share of 46.0 weeks, as the fraction n / d
distribute_active_weeks(seas, year_index) ==
    LET fracs == seas.league_week_fractions
        s     == SumSeq(fracs)
    IN  [i \in DOMAIN fracs |-> [n |-> fracs[i] * 46, d |-> s]]

month_label(start_date, idx) ==
    [year  |-> start_date.year + (start_date.month - 1 + idx) \div 12,
     month |-> ((start_date.month - 1 + idx) % 12) + 1]

\* line 66 in sixths: factor = min(1.0, (t + 1) / 6.0)
RampSixths(t) == Min(6, t + 1)

\* lines 55 and 62-75: the month's configuration, a copy of cfg with the
\* ramped league and open-play levers.  The two utilizations are rounded
\* down to the percent.
MonthConfig(cfg, t) ==
    LET k == RampSixths(t)
    IN  [cfg EXCEPT
           !.league.weeknights   = Max(1, RoundHalfEven(cfg.league.weeknights * k, 6)),
           !.league.courts_used  = Max(1, RoundHalfEven(cfg.league.courts_used * k, 6)),
           !.league.fill_rate    = Max(30, 36 + ((cfg.league.fill_rate - 36) * k) \div 6),
           !.openplay.util_prime = Frac(cfg.openplay.util_prime, 36 + 4 * k, 60),
           !.openplay.util_off   = Frac(cfg.openplay.util_off, 42 + 3 * k, 60),
           !.openplay.member_share_prime = cfg.openplay.member_share_prime,
           !.openplay.member_share_off   = cfg.openplay.member_share_off]

\* line 58: round(logistic_members(...))
Members(cfg, t) ==
    LET x == logistic_members(t, cfg.growth.K, cfg.growth.r, cfg.growth.t_mid,
                              cfg.growth.start_members)
    IN  RoundHalfEven(x.n, x.d)

\* lines 96-100: the head-count of each membership tier
TierCounts(cfg, members) ==
    LET mix  == cfg.member_mix
        comm == RoundHalfEven(members * mix.pct_community, MixDen(mix))
        play == RoundHalfEven(members * mix.pct_player, MixDen(mix))
    IN  [comm |-> comm, play |-> play, pro |-> members - comm - play]

\* lines 49-52, 58 and 80-164: the row of month t from the week res_w that
\* compute returned for the month's configuration
ProjectionRow(cfg, t, res_w, am, cum_cash) ==
    LET wks == cfg.seasonality.weeks_per_month[(t % 12) + 1]
        year_idx == IF t < 12 THEN 0 ELSE 1
        league_weeks_this_month ==
            distribute_active_weeks(cfg.seasonality, year_idx)[(t % 12) + 1]
        members == Members(cfg, t)
        \* dollars * 60 a week, times hundredths of a week
        court_rev_m   == (res_w.weekly.court_rev * wks) \div 600
        \* dollars * 45000 a week
        weekly_league == res_w.weekly.league_rev \div 4500
        league_rev_m  == Frac(weekly_league, league_weeks_this_month.n,
                              league_weeks_this_month.d)
        corp_rev_m    == (res_w.annual.corp_rev * 10) \div 12
        tourney_rev_m == (res_w.annual.tourney_rev * 10) \div 12
        retail_rev_m  == (res_w.annual.retail_rev * 10) \div 12
        variable_rev_m == court_rev_m + league_rev_m + corp_rev_m + tourney_rev_m
                            + retail_rev_m
        comm == TierCounts(cfg, members).comm
        play == TierCounts(cfg, members).play
        pro  == TierCounts(cfg, members).pro
        membership_rev_m == 10 * (comm * cfg.member_plans.community_monthly_fee
                                    + play * cfg.member_plans.player_monthly_fee
                                    + pro * cfg.member_plans.pro_monthly_fee)
        non_rent_fixed == cfg.costs.fixed_monthly_base - cfg.costs.rent_monthly
        fixed_components ==
            calculate_total_fixed_opex(t, non_rent_fixed, cfg.costs.rent_escalator_pct,
                                       cfg.costs.rent_abatement_months,
                                       cfg.costs.fixed_inflation_annual)
        fixed_m == fixed_components.total
        \* court-minutes of the month; utilized_ch_year is court-minutes * 100
        utilized_ch_m    == ((res_w.utilized_ch_year \div 52) * wks) \div 10000
        variable_costs_m == Frac(variable_rev_m, cfg.costs.variable_pct_of_variable_rev, 100)
        staff_costs_m    == Frac(utilized_ch_m, cfg.costs.staff_cost_per_utilized_ch, 60)
        opex_m           == fixed_m + variable_costs_m + staff_costs_m
        total_revenue_m  == variable_rev_m + membership_rev_m
        ebitda_m         == total_revenue_m - opex_m
        ds               == am[t + 1].payment
        cash_flow_m      == ebitda_m - ds
    IN  [month |-> month_label(cfg.growth.start_date, t),
         members |-> members,
         rev_variable |-> variable_rev_m,
         rev_membership |-> membership_rev_m,
         rev_total |-> total_revenue_m,
         court_rev_m |-> court_rev_m,
         league_rev_m |-> league_rev_m,
         corp_rev_m |-> corp_rev_m,
         tourney_rev_m |-> tourney_rev_m,
         retail_rev_m |-> retail_rev_m,
         fixed_opex_m |-> fixed_m,
         rent_m |-> fixed_components.rent,
         non_rent_fixed_m |-> fixed_components.non_rent,
         variable_costs_m |-> variable_costs_m,
         staff_costs_m |-> staff_costs_m,
         opex_total_m |-> opex_m,
         EBITDA_m |-> ebitda_m,
         debt_service_m |-> ds,
         DSCR_m |-> dscr(ebitda_m, ds),
         cash_flow_m |-> cash_flow_m,
         cum_cash |-> cum_cash + cash_flow_m,
         league_weeks_m |-> league_weeks_this_month,
         weeks_in_month |-> wks]

RECURSIVE SumField(_, _)
\* lines 170-171 and statements.py lines 222-223: sum(r[key] for r in xs)
SumField(xs, key) == IF xs = <<>> THEN 0 ELSE Head(xs)[key] + SumField(Tail(xs), key)

RECURSIVE MinDscr(_)
\* min(r["DSCR_m"] for r in xs) of a non-empty xs
MinDscr(xs) ==
    IF Len(xs) = 1 THEN xs[1].DSCR_m
    ELSE LET rest == MinDscr(Tail(xs))
             x    == xs[1].DSCR_m
         IN  IF x = Infinity THEN rest
             ELSE IF rest = Infinity THEN x
             ELSE IF x.value <= rest.value THEN x ELSE rest

\* sum(r["DSCR_m"] for r in xs) / len(xs)
AvgDscr(xs) ==
    IF \E i \in DOMAIN xs : xs[i].DSCR_m = Infinity THEN Infinity
    ELSE Float(SumSeq([i \in DOMAIN xs |-> xs[i].DSCR_m.value]) \div Len(xs))

\* "YYYY-MM" strings compare as year, then month
LabelLeq(a, b) == a.year < b.year \/ (a.year = b.year /\ a.month <= b.month)

\* lines 166-202: the two yearly rollups
ProjectionSummary(rows) ==
    LET y1 == SubSeq(rows, 1, 12)
        y2 == SubSeq(rows, 13, Len(rows))
        profitable == {i \in DOMAIN rows : rows[i].EBITDA_m >= 0}
        break_even_month ==
            IF profitable = {} THEN None
            ELSE rows[CHOOSE i \in profitable : \A j \in profitable : i <= j].month
        roll(xs) ==
            [rev_variable   |-> SumField(xs, "rev_variable"),
             rev_membership |-> SumField(xs, "rev_membership"),
             rev_total      |-> SumField(xs, "rev_total"),
             EBITDA         |-> SumField(xs, "EBITDA_m"),
             debt_service   |-> SumField(xs, "debt_service_m"),
             cash_flow      |-> SumField(xs, "cash_flow_m"),
             min_DSCR       |-> MinDscr(xs),
             avg_DSCR       |-> AvgDscr(xs),
             end_cash       |-> xs[Len(xs)].cum_cash]
    IN  [Y1 |-> roll(y1) @@
                [break_even_month |->
                    IF break_even_month # None
                         /\ LabelLeq(break_even_month, y1[Len(y1)].month)
                    THEN break_even_month ELSE None],
         Y2 |-> roll(y2)]

(***************************************************************************)
(* engine/statements.py                                                    *)
(***************************************************************************)
calculate_depreciation(cfg) ==
    cfg.finance.leasehold_improvements \div (cfg.finance.depreciation_years_leasehold * 12)
      + cfg.finance.equipment \div (cfg.finance.depreciation_years_equipment * 12)

\* running figures that open with no cash in the reserve
StatementLocalsWithoutReserve(cfg) ==
    [i |-> 0,
     ppe_gross |-> cfg.finance.leasehold_improvements + cfg.finance.equipment,
     accumulated_depreciation |-> 0,
     debt_balance |-> cfg.finance.loan_amount,
     nol_balance |-> cfg.finance.nol_carryforward_start,
     retained_earnings |-> 0,
     cash |-> 0,
     depreciation_monthly |-> calculate_depreciation(cfg),
     pnl_rows |-> <<>>,
     bs_rows |-> <<>>]

\* lines 20-28: the running figures before the first month
StatementLocals(cfg) ==
    [i |-> 0,
     ppe_gross |-> cfg.finance.leasehold_improvements + cfg.finance.equipment,
     accumulated_depreciation |-> 0,
     debt_balance |-> cfg.finance.loan_amount,
     nol_balance |-> cfg.finance.nol_carryforward_start,
     retained_earnings |-> 0,
     cash |-> cfg.finance.wc_reserve_start,
     depreciation_monthly |-> calculate_depreciation(cfg),
     pnl_rows |-> <<>>,
     bs_rows |-> <<>>]

\* opex_details.get("opex_" + category, 0)
OpexDetail(cfg, non_rent_fixed, category) ==
    IF category \in DOMAIN cfg.finance.opex_allocations
    THEN Frac(non_rent_fixed, cfg.finance.opex_allocations[category], 100)
    ELSE 0

\* a month that writes off the whole NOL balance against any profit
NolUsedInFull(nol_balance, ebt) ==
    IF ebt > 0 /\ nol_balance > 0 THEN nol_balance ELSE 0

\* lines 111-113: the NOL a profitable month uses
NolUsed(nol_balance, ebt) ==
    IF ebt > 0 /\ nol_balance > 0 THEN Min(nol_balance, ebt) ELSE 0

\* an EBITDA that leaves the fixed operating expenses out
EbitdaBeforeFixedOpex(gross_profit, fixed_opex) == gross_profit

\* line 90: EBITDA is the gross profit less the fixed operating expenses
StatementEbitda(gross_profit, fixed_opex) == gross_profit - fixed_opex

\* lines 36-131: the P&L of month m from the running figures st
PnlRow(cfg, m, st) ==
    LET variable_costs      == m.variable_costs_m
        cogs_variable_labor == m.staff_costs_m
        cogs                == variable_costs + cogs_variable_labor
        gross_profit        == m.rev_total - cogs
        fixed_opex          == m.fixed_opex_m
        rent                == m.rent_m
        non_rent_fixed      == m.non_rent_fixed_m
        total_payroll       == OpexDetail(cfg, non_rent_fixed, "payroll")
        opex_payroll_salary == Frac(total_payroll, cfg.finance.payroll_split_salary_pct, 100)
        opex_payroll_taxes  == Frac(total_payroll, cfg.finance.payroll_split_taxes_pct, 100)
        total_prof_fees     == OpexDetail(cfg, non_rent_fixed, "professional_fees")
        ebitda              == StatementEbitda(gross_profit, fixed_opex)
        depreciation        == st.depreciation_monthly
        ebit                == ebitda - depreciation
        \* lines 102-105: i < len(months) always holds
        interest            == Frac(st.debt_balance, cfg.finance.apr, 1200)
        ebt                 == ebit - interest
        nol_used            == NolUsed(st.nol_balance, ebt)
        nol_balance         == IF ebt > 0 THEN st.nol_balance - nol_used
                               ELSE st.nol_balance + Abs(ebt)
        taxable_income      == IF ebt > 0 THEN ebt - nol_used ELSE 0
        state_tax   == IF taxable_income > 0
                       THEN Frac(taxable_income, cfg.finance.state_tax_rate, 100) ELSE 0
        federal_tax == IF taxable_income > state_tax
                       THEN Frac(taxable_income - state_tax,
                                 cfg.finance.corporate_tax_rate, 100)
                       ELSE 0
        local_tax   == IF taxable_income > 0
                       THEN Frac(taxable_income, cfg.finance.local_tax_rate, 100) ELSE 0
        tax         == state_tax + federal_tax + local_tax
    IN  [month |-> m.month,
         revenue_court |-> m.court_rev_m, revenue_league |-> m.league_rev_m,
         revenue_corp |-> m.corp_rev_m, revenue_tourney |-> m.tourney_rev_m,
         revenue_retail |-> m.retail_rev_m, revenue_membership |-> m.rev_membership,
         revenue_total |-> m.rev_total,
         cogs_variable |-> variable_costs, cogs_variable_labor |-> cogs_variable_labor,
         cogs_total |-> cogs, gross_profit |-> gross_profit,
         opex_fixed |-> fixed_opex, rent |-> rent, non_rent_fixed |-> non_rent_fixed,
         opex_payroll_salary |-> opex_payroll_salary,
         opex_payroll_taxes |-> opex_payroll_taxes,
         opex_utilities |-> OpexDetail(cfg, non_rent_fixed, "utilities"),
         opex_insurance |-> OpexDetail(cfg, non_rent_fixed, "insurance"),
         opex_marketing |-> OpexDetail(cfg, non_rent_fixed, "marketing"),
         opex_software |-> OpexDetail(cfg, non_rent_fixed, "software"),
         opex_professional_fees |-> total_prof_fees,
         opex_prof_fees_outside |->
             Frac(total_prof_fees, cfg.finance.prof_fees_outside_services_pct, 100),
         opex_prof_fees_accounting |->
             Frac(total_prof_fees, cfg.finance.prof_fees_accounting_legal_pct, 100),
         opex_repairs_maintenance |->
             OpexDetail(cfg, non_rent_fixed, "repairs_maintenance"),
         opex_other |-> OpexDetail(cfg, non_rent_fixed, "other_opex"),
         ebitda |-> ebitda, depreciation |-> depreciation, ebit |-> ebit,
         interest |-> interest, ebt |-> ebt, tax |-> tax,
         tax_federal |-> federal_tax, tax_state |-> state_tax, tax_local |-> local_tax,
         net_income |-> ebt - tax,
         nol_balance |-> nol_balance]

\* lines 81-87: the labor double-count validation; 0.01 dollars is below
\* the unit, so the two figures are closer than that when they are equal
LaborDoubleCount(p) ==
    /\ p.cogs_variable_labor > 0 /\ p.opex_payroll_salary > 0
    /\ p.cogs_variable_labor = p.opex_payroll_salary

\* line 91: the cross-check against the projection's EBITDA, within $1
EbitdaAgrees(p, m) == Abs(p.ebitda - m.EBITDA_m) < 10

\* an operating cash flow that does not add the depreciation back
OperatingCfWithoutDepreciation(net_income, depreciation) == net_income

\* line 180: operating cash flow = net income + depreciation (non-cash)
OperatingCf(net_income, depreciation) == net_income + depreciation

\* lines 178-216: the balance sheet at the end of month m, with the P&L row
\* p of the month; the plug of lines 200-202 fires beyond $1
BalanceSheetRow(m, st, p) ==
    LET accumulated_depreciation == st.accumulated_depreciation + p.depreciation
        retained_earnings == st.retained_earnings + p.net_income
        operating_cf      == OperatingCf(p.net_income, p.depreciation)
        principal_payment == m.debt_service_m - p.interest
        debt_balance      == st.debt_balance - principal_payment
        cash              == st.cash + operating_cf - principal_payment
        ppe_net           == st.ppe_gross - accumulated_depreciation
        total_assets      == cash + ppe_net
        check_balance     == total_assets - (debt_balance + retained_earnings)
        equity            == IF Abs(check_balance) > 10
                             THEN retained_earnings + check_balance
                             ELSE retained_earnings
    IN  [month |-> m.month,
         cash |-> cash,
         ppe_gross |-> st.ppe_gross,
         accumulated_depreciation |-> -accumulated_depreciation,
         ppe_net |-> ppe_net,
         total_assets |-> total_assets,
         debt_balance |-> debt_balance,
         equity |-> equity,
         total_liabilities_equity |-> debt_balance + equity,
         check |-> Abs(total_assets - (debt_balance + equity))]

\* lines 218-243
StatementSummary(pnl_rows, bs_rows) ==
    LET year(xs, last) ==
            [revenue    |-> SumField(xs, "revenue_total"),
             ebitda     |-> SumField(xs, "ebitda"),
             net_income |-> SumField(xs, "net_income"),
             end_cash   |-> bs_rows[last].cash,
             end_debt   |-> bs_rows[last].debt_balance,
             end_equity |-> bs_rows[last].equity]
    IN  [Y1 |-> year(SubSeq(pnl_rows, 1, 12), 12),
         Y2 |-> year(SubSeq(pnl_rows, 13, Len(pnl_rows)), 24)]

(***************************************************************************)
(* build_24_month_projection and build_financial_statements as calls       *)
(***************************************************************************)
\* projections.py lines 34-45 (and statements.py line 16, which calls the
\* projection first): the amortization schedule and the opening cash
ProjectionEnter ==
    /\ entry \in {"build_24_month_projection", "build_financial_statements"}
    /\ pc = "enter"
    /\ LET f   == heap.cfg.finance
           pmt == monthly_payment(f.loan_amount, f.apr, f.term_years)
       IN  IF pmt = ZeroDivisionError
           THEN /\ pc' = "ZeroDivisionError"
                /\ UNCHANGED proj
           ELSE /\ pc' = "month"
                /\ proj' = [t |-> 0,
                            am |-> amortization_schedule(f.loan_amount, f.apr,
                                       f.term_years, heap.cfg.growth.months),
                            rows |-> <<>>,
                            cum_cash |-> f.wc_reserve_start]
    /\ UNCHANGED <<entry, heap, arg, loc, stmt, res, prev>>

\* lines 47-78: the month's configuration is a deep copy of cfg, a new
\* object, with the ramped levers; compute is called on the copy
MonthBegin ==
    /\ pc = "month"
    /\ proj.t < heap.cfg.growth.months
    /\ heap' = [heap EXCEPT !.cfg_m = MonthConfig(heap.cfg, proj.t)]
    /\ arg' = "cfg_m"
    /\ loc' = Idle
    /\ pc' = "call"
    /\ UNCHANGED <<entry, proj, stmt, res, prev>>

\* a month that appends its row and leaves the carried cash where it was
MonthRowKeepsCash ==
    /\ pc = "row"
    /\ LET row == ProjectionRow(heap.cfg, proj.t, res, proj.am, proj.cum_cash)
       IN  proj' = [proj EXCEPT !.t = @ + 1, !.rows = Append(@, row)]
    /\ pc' = "month"
    /\ UNCHANGED <<entry, heap, arg, loc, stmt, res, prev>>

\* lines 80-164: the row of the month from the week compute returned
MonthRow ==
    /\ pc = "row"
    /\ LET row == ProjectionRow(heap.cfg, proj.t, res, proj.am, proj.cum_cash)
       IN  proj' = [proj EXCEPT !.t = @ + 1,
                                !.rows = Append(@, row),
                                !.cum_cash = row.cum_cash]
    /\ pc' = "month"
    /\ UNCHANGED <<entry, heap, arg, loc, stmt, res, prev>>

\* lines 166-202; statements.py lines 17-28 when the statement builder
\* made the call
ProjectionReturn ==
    /\ pc = "month"
    /\ proj.t >= heap.cfg.growth.months
    /\ res' = [months |-> proj.rows, summary |-> ProjectionSummary(proj.rows)]
    /\ arg' = "cfg"
    /\ IF entry = "build_financial_statements"
       THEN /\ pc' = "statements"
            /\ stmt' = StatementLocals(heap.cfg)
       ELSE /\ pc' = "done"
            /\ UNCHANGED stmt
    /\ UNCHANGED <<entry, heap, loc, proj, prev>>

Projection == ProjectionEnter \/ MonthBegin \/ MonthRow \/ ProjectionReturn

\* statements.py lines 34-216: one month of the P&L and the balance sheet
StatementMonth ==
    /\ pc = "statements"
    /\ stmt.i < Len(res.months)
    /\ LET m == res.months[stmt.i + 1]
           p == PnlRow(heap.cfg, m, stmt)
           b == BalanceSheetRow(m, stmt, p)
       IN  IF LaborDoubleCount(p)
           THEN /\ pc' = "ValueError"
                /\ UNCHANGED stmt
           ELSE IF ~EbitdaAgrees(p, m)
           THEN /\ pc' = "AssertionError"
                /\ UNCHANGED stmt
           ELSE /\ pc' = "statements"
                /\ stmt' = [stmt EXCEPT
                              !.i = @ + 1,
                              !.accumulated_depreciation = @ + p.depreciation,
                              !.debt_balance = b.debt_balance,
                              !.nol_balance = p.nol_balance,
                              !.retained_earnings = @ + p.net_income,
                              !.cash = b.cash,
                              !.pnl_rows = Append(@, p),
                              !.bs_rows = Append(@, b)]
    /\ UNCHANGED <<entry, heap, arg, loc, proj, res, prev>>

\* statements.py lines 218-249
StatementsReturn ==
    /\ pc = "statements"
    /\ stmt.i >= Len(res.months)
    /\ res' = [pnl |-> stmt.pnl_rows, balance_sheet |-> stmt.bs_rows,
               summary |-> StatementSummary(stmt.pnl_rows, stmt.bs_rows)]
    /\ pc' = "done"
    /\ UNCHANGED <<entry, heap, arg, loc, proj, stmt, prev>>

Statements == StatementMonth \/ StatementsReturn

(***************************************************************************)
(* The callers of the projection and of the statement builder              *)
(***************************************************************************)
\* membership curves: no capacity, a small and the default capacity, the
\* default and a steep rate, a midpoint at the start and the default one
GrowthConfigs ==
    {[GrowthConfig EXCEPT !.K = K, !.r = r, !.t_mid = tm, !.start_members = sm] :
        K \in {0, 7, 350}, r \in {35, 100}, tm \in {0, 8}, sm \in {0, 3, 50}}

CostsConfigs ==
    {CostsConfig,
     [CostsConfig EXCEPT !.fixed_monthly_base = 400000, !.rent_abatement_months = 2]}

\* the opening residual wc_reserve_start + PP&E - loan_amount, around the
\* tolerance of one dollar
Residuals == {-15, -10, 0, 5, 10, 15, 10000}

LoanTerms == {<<0, 10>>, <<9, 10>>, <<12, 1>>}

FinanceConfigs ==
    {[FinanceConfig EXCEPT
        !.leasehold_improvements = ppe[1], !.equipment = ppe[2],
        !.wc_reserve_start = wc,
        !.loan_amount = wc + ppe[1] + ppe[2] - r,
        !.apr = lt[1], !.term_years = lt[2]] :
        ppe \in {<<0, 0>>, <<9940000, 2200000>>}, wc \in {2000000},
        r \in Residuals, lt \in LoanTerms}

\* the default finance with an NOL carried in: $4,000 and $500,000
NolConfigs ==
    {[FinanceConfig EXCEPT !.nol_carryforward_start = n] : n \in {40000, 5000000}}

\* the league nights and the fill rate the ramp heads for: the defaults, no
\* weeknights, and fill rates of 0.55 and 0.4
RampTargets ==
    [weeknights : {0, 4}, fill_rate : {24, 33, 54}]

\* the default finance with both asset classes written off over one year
ShortLivedAssets ==
    {[FinanceConfig EXCEPT !.depreciation_years_leasehold = 1,
                           !.depreciation_years_equipment = 1]}

\* a membership of community and player members in equal halves, and the
\* small membership curves it is projected over
EvenSplit == [pct_community |-> 1, pct_player |-> 1, pct_pro |-> 0]

SmallClubs == {gr \in GrowthConfigs : gr.K = 7 /\ gr.r = 35}

\* league seasons of 40 and of the default 46 active weeks
ActiveWeeks == {40, 46}

\* the schedule of the league the projection ramps up to
ProjectionLeague(g) ==
    [session_len_h |-> 90, buffer_min |-> 10, weeknights |-> 4, weekend_morns |-> 1,
     courts_used |-> g.courts_used, players_per_court |-> 4, fill_rate |-> 54,
     active_weeks |-> 46, price_prime_slot_6wk |-> 6]

ProjectionBase(g) ==
    Config(GeomFacility(g), GeomPrime(g), ProjectionLeague(g), LeagueDiscounts,
           LeagueParticipants, MemberMix)

InitProjection ==
    /\ \/ /\ entry = "compute" /\ pc = "call"
          /\ \E g \in SmallGeometries :
               heap = [cfg |-> FullConfig(ProjectionBase(g), GrowthConfig, CostsConfig,
                                          FinanceConfig),
                       cfg_m |-> None]
       \/ /\ entry = "build_24_month_projection" /\ pc = "enter"
          /\ \E g \in SmallGeometries, gr \in GrowthConfigs :
               /\ g.courts = 2
               /\ heap = [cfg |-> FullConfig(ProjectionBase(g), gr, CostsConfig,
                                             FinanceConfig),
                          cfg_m |-> None]
       \/ /\ entry = "build_24_month_projection" /\ pc = "enter"
          /\ \E g \in SmallGeometries, rt \in RampTargets :
               /\ g.courts = 1 \/ g.courts_used = 2
               /\ heap = [cfg |-> FullConfig(
                                     [ProjectionBase(g) EXCEPT
                                        !.league.weeknights = rt.weeknights,
                                        !.league.fill_rate = rt.fill_rate],
                                     GrowthConfig, CostsConfig, FinanceConfig),
                          cfg_m |-> None]
       \/ /\ entry = "build_24_month_projection" /\ pc = "enter"
          /\ \E g \in SmallGeometries, gr \in SmallClubs, aw \in ActiveWeeks :
               /\ g.courts = 2 /\ g.courts_used = 2
               /\ heap = [cfg |-> FullConfig(
                                     [ProjectionBase(g) EXCEPT
                                        !.member_mix = EvenSplit,
                                        !.league.active_weeks = aw],
                                     gr, CostsConfig, FinanceConfig),
                          cfg_m |-> None]
       \/ /\ entry = "build_financial_statements" /\ pc = "enter"
          /\ \E g \in SmallGeometries, co \in CostsConfigs,
                f \in FinanceConfigs \cup NolConfigs \cup ShortLivedAssets :
               /\ g.courts = 2 /\ g.courts_used = 4
               /\ heap = [cfg |-> FullConfig(ProjectionBase(g), GrowthConfig, co, f),
                          cfg_m |-> None]
    /\ arg = "cfg"
    /\ loc = Idle /\ proj = Idle /\ stmt = Idle
    /\ res = None /\ prev = None

NextProjection == Compute \/ Projection \/ Statements \/ CallAgain

SpecProjection == InitProjection /\ [][NextProjection]_vars

(***************************************************************************)
(* Claims about the projection and the financial statements                *)
(***************************************************************************)
\* the balance-sheet rows built so far by build_financial_statements
BalanceSheetRows ==
    IF entry = "build_financial_statements" /\ stmt # Idle THEN stmt.bs_rows ELSE <<>>

\* C3: in every balance-sheet row of build_financial_statements,
\* |total_assets - total_liabilities_equity| < 1 dollar, where
\* total_liabilities_equity is debt_balance + equity after the plug
C3_BalanceSheetBalances ==
    \A i \in DOMAIN BalanceSheetRows :
        LET row == BalanceSheetRows[i]
        IN  /\ row.total_liabilities_equity = row.debt_balance + row.equity
            /\ Abs(row.total_assets - row.total_liabilities_equity) < 10

\* the month rows built so far by build_24_month_projection
MonthRows == IF proj # Idle THEN proj.rows ELSE <<>>

\* C4: for a growth config with K >= start_members >= 0 and r > 0, every
\* month row of the projection has 0 <= members <= K, and members never
\* falls from one month to the next
C4_MembersBoundedAndNonDecreasing ==
    LET g == heap.cfg.growth
    IN  (proj # Idle /\ g.K >= g.start_members /\ g.start_members >= 0 /\ g.r > 0)
          => /\ \A i \in DOMAIN MonthRows :
                   0 <= MonthRows[i].members /\ MonthRows[i].members <= g.K
             /\ \A i \in DOMAIN MonthRows :
                   i + 1 \in DOMAIN MonthRows
                     => MonthRows[i].members <= MonthRows[i + 1].members

C4_Witness ==
    /\ entry = "build_24_month_projection" /\ pc = "done"
    /\ heap.cfg.growth.K = 350 /\ heap.cfg.growth.start_members = 50
    /\ heap.cfg.growth.r = 35 /\ heap.cfg.growth.t_mid = 8
    /\ Len(res.months) = 24
    /\ res.months[1].members = 50
    /\ res.months[8].members = 145
    /\ res.months[9].members = 175
    /\ res.months[24].members = 348

\* C5: compute, derive_league_capacity and build_24_month_projection never
\* modify the Config (or its LeagueConfig) they are given: no step of a call
\* changes the caller's object, and a repeated call with the same config
\* returns an identical result
C5_CallerConfigNeverModified ==
    /\ [][heap'.cfg = heap.cfg]_vars
    /\ []((pc = "done" /\ prev # None) => (heap.cfg = prev.cfg /\ res = prev.res))

\* the second projection of a config, in a month where the ramp lowered the
\* copy's courts_used and the auto-fitter lowered it again
C5_Witness ==
    /\ entry = "build_24_month_projection" /\ prev # None
    /\ pc = "row" /\ proj.t = 3
    /\ heap.cfg.league.courts_used = 4
    /\ heap.cfg_m.league.courts_used = 3
    /\ res.league_debug.courts_used = 2
    /\ heap.cfg = prev.cfg

(***************************************************************************)
(* Claims about failures of the auto-fitter and the allocator              *)
(***************************************************************************)
\* C11: derive_league_capacity returns a result for every prime window,
\* league and facility, a session length and buffer of 0 included: the call
\* compute makes of it never ends in an exception
C11_DeriveNeverRaises ==
    entry = "compute" => pc # "ZeroDivisionError"

\* C12: every allocation weekly_allocation returns keeps the prime streams
\* and the open prime hours within prime_ch, and the off-peak streams and the
\* open off-peak hours within off_ch: an overbooked window fails the call
C12_OverbookedWindowFails ==
    (entry = "weekly_allocation" /\ pc = "done")
      => /\ res.league_ch + heap.cfg.corp_prime_ch_wk
              + heap.cfg.tourney_prime_ch_wk + res.open_prime_ch <= res.prime_ch
         /\ heap.cfg.corp_off_ch_wk + heap.cfg.tourney_off_ch_wk
              + res.open_off_ch <= res.off_ch

\* C13: compute reports as weekly league_blocks the blocks of the configured
\* league nights only (weekly_league_blocks of the schedule and the league)
\* and as league_slots those blocks times the fitted courts_used times
\* players_per_court
C13_LeagueBlocksOfConfiguredNights ==
    (entry = "compute" /\ pc = "done")
      => /\ res.weekly.league_blocks
              = weekly_league_blocks(heap.cfg.prime, heap.cfg.league)
         /\ res.weekly.league_slots
              = res.weekly.league_blocks * res.league_debug.courts_used
                  * heap.cfg.league.players_per_court

(***************************************************************************)
(* Claims about the rows of the statements and of the projection           *)
(***************************************************************************)
\* C14: the check field of a balance-sheet row is the discrepancy
\* |assets - (debt + retained earnings)| measured before the plug, so the
\* row of a month in which the plug fired has check > 1 dollar (the running
\* retained_earnings is the equity of the latest row before its plug)
C14_CheckReportsPrePlugDiscrepancy ==
    (entry = "build_financial_statements" /\ stmt # Idle /\ stmt.bs_rows # <<>>)
      => LET row == stmt.bs_rows[Len(stmt.bs_rows)]
             pre == row.total_assets - (row.debt_balance + stmt.retained_earnings)
         IN  /\ row.check = Abs(pre)
             /\ Abs(pre) > 10 => row.check > 10

\* C15: with rent_abatement_months = 0 the month-0 row of the projection has
\* rent_m = costs.rent_monthly, non_rent_fixed_m = costs.fixed_monthly_base
\* - costs.rent_monthly and fixed_opex_m = costs.fixed_monthly_base
C15_MonthZeroRentIsConfigured ==
    (MonthRows # <<>> /\ heap.cfg.costs.rent_abatement_months = 0)
      => LET costs == heap.cfg.costs
             row   == MonthRows[1]
         IN  /\ row.rent_m = costs.rent_monthly
             /\ row.non_rent_fixed_m = costs.fixed_monthly_base - costs.rent_monthly
             /\ row.fixed_opex_m = costs.fixed_monthly_base

(***************************************************************************)
(* Claims about the figures compute returns                                *)
(***************************************************************************)
\* C16: whenever compute returns for a config with courts > 0,
\* hours_per_day > 0, non-negative prime windows and open-play utilizations
\* in [0, 1], utilized_ch_year <= available_ch_year (utilized court-time is
\* kept in hundredths of a court-minute)
C16_UtilizedWithinAvailable ==
    (entry = "compute" /\ pc = "done" /\ ValidSchedule(heap.cfg)
       /\ heap.cfg.facility.hours_per_day > 0
       /\ heap.cfg.openplay.util_prime \in 0..100
       /\ heap.cfg.openplay.util_off \in 0..100)
      => res.utilized_ch_year <= res.available_ch_year * 100

(***************************************************************************)
(* Claims about the order and the warnings of the auto-fit ladder          *)
(***************************************************************************)
\* a step taken inside the ladder of derive_league_capacity
LadderStep ==
    /\ pc \in {"step1", "step2", "step3", "step4"}
    /\ pc' \in {"step1", "step2", "step3", "step4"}

StillExceeds == Exceeds(loc)

\* C17: the ladder runs in strict order and only as far as needed: every
\* decrement is made while the league still exceeds prime; Friday blocks are
\* lowered only with courts_used at or below 2, Mon-Thu blocks only if in
\* addition Friday blocks are 0, weekend blocks only if in addition Mon-Thu
\* blocks are 0
C17_LadderInStrictOrder ==
    [][LadderStep =>
         /\ loc'.courts_used < loc.courts_used
              => (StillExceeds /\ loc.courts_used > 2)
         /\ loc'.blocks_fri < loc.blocks_fri
              => (StillExceeds /\ loc.courts_used <= 2)
         /\ loc'.blocks_mon_thu < loc.blocks_mon_thu
              => (StillExceeds /\ loc.courts_used <= 2 /\ loc.blocks_fri = 0)
         /\ loc'.blocks_weekend < loc.blocks_weekend
              => (StillExceeds /\ loc.courts_used <= 2 /\ loc.blocks_fri = 0
                    /\ loc.blocks_mon_thu = 0)]_vars

\* the ladder went through all four stages and stopped the weekend stage at
\* the first count that fits, two blocks short of none
C17_Witness ==
    /\ pc = "derived"
    /\ Arg.league.courts_used = 4
    /\ loc.league_cap.courts_used = 2
    /\ loc.league_cap.blocks_fri = 0 /\ loc.league_cap.blocks_mon_thu = 0
    /\ loc.league_cap.blocks_weekend = 2
    /\ loc.league_cap.blocks_weekend
         < DeriveEnter(Arg.prime, Arg.league, Arg.facility).blocks_weekend
    /\ loc.league_cap.league_ch_week = loc.league_cap.prime_ch_week

\* C18: the warnings of derive_league_capacity hold, for every stage that
\* lowered a value, an entry of that stage stating the new value; and they
\* are empty exactly when nothing was lowered
C18_EveryReductionIsWarned ==
    pc = "derived"
      => LET lc   == loc.league_cap
             init == DeriveEnter(Arg.prime, Arg.league, Arg.facility)
             Warned(stage, value) ==
                 \E i \in DOMAIN lc.warnings :
                     lc.warnings[i].stage = stage /\ lc.warnings[i].to = value
         IN  /\ lc.courts_used < init.courts_used
                  => Warned("courts_used", lc.courts_used)
             /\ lc.blocks_fri < init.blocks_fri
                  => Warned("blocks_fri", lc.blocks_fri)
             /\ lc.blocks_mon_thu < init.blocks_mon_thu
                  => Warned("blocks_mon_thu", lc.blocks_mon_thu)
             /\ lc.blocks_weekend < init.blocks_weekend
                  => Warned("blocks_weekend", lc.blocks_weekend)
             /\ (lc.warnings = <<>>)
                  <=> (/\ lc.courts_used = init.courts_used
                       /\ lc.blocks_fri = init.blocks_fri
                       /\ lc.blocks_mon_thu = init.blocks_mon_thu
                       /\ lc.blocks_weekend = init.blocks_weekend)

(***************************************************************************)
(* Claims about the cash and the EBITDA of the monthly rows                *)
(***************************************************************************)
\* a month row without its running cash
RowWithoutCash(row) == [k \in DOMAIN row \ {"cum_cash"} |-> row[k]]

\* C19: the running cash of the projection is a pure fold: in every row
\* cash_flow_m = EBITDA_m - debt_service_m and cum_cash = wc_reserve_start
\* plus the cash flows up to that row; compute runs on the month's config,
\* which is a function of cfg and t, and the row it yields is the same but
\* for cum_cash whatever cash was carried into the month
C19_CashIsAPureFold ==
    /\ [](\A i \in DOMAIN MonthRows :
             /\ MonthRows[i].cash_flow_m
                  = MonthRows[i].EBITDA_m - MonthRows[i].debt_service_m
             /\ MonthRows[i].cum_cash
                  = heap.cfg.finance.wc_reserve_start
                      + SumField(SubSeq(MonthRows, 1, i), "cash_flow_m"))
    /\ []((proj # Idle /\ pc = "row") => heap.cfg_m = MonthConfig(heap.cfg, proj.t))
    /\ [][(proj # Idle /\ pc = "row" /\ pc' = "month")
            => \A carried \in {0, 1234567} :
                   RowWithoutCash(proj'.rows[Len(proj'.rows)])
                     = RowWithoutCash(ProjectionRow(heap.cfg, proj.t, res, proj.am,
                                                    carried))]_vars

\* a finished projection whose cash moved every month: the last cum_cash is
\* the opening reserve plus all 24 cash flows, which differ over the ramp
C19_Witness ==
    /\ entry = "build_24_month_projection" /\ pc = "done"
    /\ Len(res.months) = 24
    /\ res.months[1].cash_flow_m # 0
    /\ res.months[1].cash_flow_m # res.months[24].cash_flow_m
    /\ res.months[24].cum_cash
         = heap.cfg.finance.wc_reserve_start + SumField(res.months, "cash_flow_m")
    /\ res.months[24].cum_cash # res.months[23].cum_cash

\* C20: in every month the statement builder's EBITDA, revenue_total less
\* variable and staff costs less fixed opex, is within $1 of the projection
\* row's EBITDA_m, so the cross-check of build_financial_statements never
\* fails
C20_EbitdaCrossCheckNeverFails ==
    (entry = "build_financial_statements" /\ stmt # Idle)
      => /\ pc # "AssertionError"
         /\ \A i \in DOMAIN stmt.pnl_rows :
                LET p == stmt.pnl_rows[i]
                    m == proj.rows[i]
                IN  /\ p.ebitda = p.revenue_total - p.cogs_total - p.opex_fixed
                    /\ p.cogs_total = m.variable_costs_m + m.staff_costs_m
                    /\ Abs(p.ebitda - m.EBITDA_m) < 10

\* finished statements of a config with rent abatement: fixed opex, variable
\* and staff costs all weigh on an EBITDA that changes over the months
C20_Witness ==
    /\ entry = "build_financial_statements" /\ pc = "done"
    /\ heap.cfg.costs.rent_abatement_months = 2
    /\ Len(res.pnl) = 24
    /\ res.pnl[1].opex_fixed > 0 /\ res.pnl[1].opex_fixed < res.pnl[3].opex_fixed
    /\ res.pnl[1].cogs_variable > 0 /\ res.pnl[1].cogs_variable_labor > 0
    /\ res.pnl[24].ebitda = proj.rows[24].EBITDA_m
    /\ res.pnl[24].ebitda # res.pnl[1].ebitda

(***************************************************************************)
(* Claims about tax, debt, cash and PP&E in the statements                 *)
(***************************************************************************)
\* the P&L rows built so far by build_financial_statements
PnlRows ==
    IF entry = "build_financial_statements" /\ stmt # Idle THEN stmt.pnl_rows ELSE <<>>

\* the NOL balance a month of the P&L started from
NolBefore(i) ==
    IF i = 1 THEN heap.cfg.finance.nol_carryforward_start
    ELSE PnlRows[i - 1].nol_balance

\* C21: with nol_carryforward_start >= 0 the NOL balance is never negative;
\* a month with EBT <= 0 pays no tax and adds |EBT| to the balance; a month
\* with EBT > 0 uses min(NOL, EBT) of the balance and is taxed on the
\* remainder only, so a month that pays tax ends with an NOL balance of 0
C21_NolOffsetsProfitBeforeTax ==
    heap.cfg.finance.nol_carryforward_start >= 0
      => \A i \in DOMAIN PnlRows :
             LET p         == PnlRows[i]
                 f         == heap.cfg.finance
                 used      == Min(NolBefore(i), p.ebt)
                 remainder == p.ebt - used
             IN  /\ p.nol_balance >= 0
                 /\ p.ebt <= 0
                      => (p.tax = 0 /\ p.nol_balance = NolBefore(i) + Abs(p.ebt))
                 /\ p.ebt > 0
                      => /\ p.nol_balance = NolBefore(i) - used
                         /\ p.tax_state = Frac(remainder, f.state_tax_rate, 100)
                         /\ p.tax_federal
                              = Frac(remainder - p.tax_state, f.corporate_tax_rate, 100)
                         /\ p.tax = p.tax_state + p.tax_federal + p.tax_local
                 /\ p.tax > 0 => p.nol_balance = 0

\* an NOL of $4,000 carried in: the first month's profit is below it and pays
\* no tax, the second uses the rest and is taxed on what remains, and the
\* losses of the later months build the balance up again
C21_Witness ==
    /\ entry = "build_financial_statements" /\ pc = "done"
    /\ heap.cfg.finance.nol_carryforward_start = 40000
    /\ res.pnl[1].ebt > 0 /\ res.pnl[1].ebt < 40000 /\ res.pnl[1].tax = 0
    /\ res.pnl[1].nol_balance = 40000 - res.pnl[1].ebt
    /\ res.pnl[2].ebt > res.pnl[1].nol_balance
    /\ res.pnl[2].tax > 0 /\ res.pnl[2].nol_balance = 0
    /\ res.pnl[3].ebt < 0 /\ res.pnl[3].nol_balance = -res.pnl[3].ebt
    /\ res.pnl[24].nol_balance > res.pnl[3].nol_balance

(***************************************************************************)
(* Claims about the monthly ramp, the tiers and the league weeks           *)
(***************************************************************************)
\* C22: the config the projection hands compute in month t has league
\* weeknights, courts_used, fill_rate and open-play util_prime and util_off
\* equal to the base config's targets from month index 5 on, and none of
\* them above its target in months 0..4
C22_RampReachesTargets ==
    (proj # Idle /\ arg = "cfg_m" /\ pc # "month")
      => LET base == heap.cfg
             m    == heap.cfg_m
             Levers(c) == <<c.league.weeknights, c.league.courts_used,
                            c.league.fill_rate, c.openplay.util_prime,
                            c.openplay.util_off>>
         IN  IF proj.t >= 5
             THEN Levers(m) = Levers(base)
             ELSE \A i \in 1..5 : Levers(m)[i] <= Levers(base)[i]

\* C23: the avg_slot_price compute reports is member_share * discounted
\* member price + (1 - member_share) * base price, the discounted price being
\* the tier-mix-weighted average of base price * (1 - tier discount), also
\* when no slot is filled (in dollars / 125, member_share in fifths)
C23_AvgSlotPriceIsShareWeighted ==
    (entry = "compute" /\ pc = "done")
      => LET c     == heap.cfg
             share == c.league_participants.member_share
             base  == c.league.price_prime_slot_6wk
             disc  == weighted_member_league_price(base, c.league_discounts,
                                                   LeagueTierMix(c))
         IN  /\ res.league_debug.disc_member_price = disc
             /\ res.league_debug.avg_slot_price
                  = share * disc + (5 - share) * base * 25

\* C24: in every month the statement builder's debt_balance and interest are
\* the balance and the interest of that month in the amortization schedule
\* behind the projection's debt service; the debt balance is never below 0,
\* and a month that starts with no debt left is charged no debt service
C24_DebtFollowsAmortization ==
    \A i \in DOMAIN BalanceSheetRows :
        /\ BalanceSheetRows[i].debt_balance = proj.am[i].balance
        /\ PnlRows[i].interest = proj.am[i].interest
        /\ BalanceSheetRows[i].debt_balance >= 0
        /\ (i > 1 /\ BalanceSheetRows[i - 1].debt_balance <= 0)
             => proj.rows[i].debt_service_m = 0

\* the opening position wc_reserve_start + PP&E - loan_amount
OpeningResidual ==
    LET f == heap.cfg.finance
    IN  f.wc_reserve_start + (f.leasehold_improvements + f.equipment) - f.loan_amount

C26_CashIsCumCashLessTax ==
    \A i \in DOMAIN BalanceSheetRows :
        LET taxes == SumField(SubSeq(PnlRows, 1, i), "tax")
        IN  /\ BalanceSheetRows[i].cash = proj.rows[i].cum_cash - taxes
            /\ taxes = 0 => BalanceSheetRows[i].cash = proj.rows[i].cum_cash

\* statements with rent abatement: tax is paid in the first months, and the
\* cash of month 24 is below the projection's by the tax paid
C26_Witness ==
    /\ entry = "build_financial_statements" /\ pc = "done"
    /\ Len(res.balance_sheet) = 24
    /\ res.pnl[1].tax > 0 /\ res.pnl[24].tax = 0
    /\ res.balance_sheet[24].cash
         = proj.rows[24].cum_cash - SumField(res.pnl, "tax")
    /\ res.balance_sheet[24].cash < proj.rows[24].cum_cash

\* C27: with positive depreciation lives, accumulated depreciation never
\* exceeds gross PP&E: every balance-sheet row has ppe_net >= 0
C27_PpeNetNeverNegative ==
    (heap.cfg.finance.depreciation_years_leasehold > 0
       /\ heap.cfg.finance.depreciation_years_equipment > 0)
      => \A i \in DOMAIN BalanceSheetRows :
             /\ -BalanceSheetRows[i].accumulated_depreciation
                  <= BalanceSheetRows[i].ppe_gross
             /\ BalanceSheetRows[i].ppe_net >= 0


\* C28: in every projection month the community, player and pro head-counts
\* that the membership revenue is computed from are each >= 0 and sum to the
\* month's members, for a member mix of fractions in [0, 1] that sum to 1
C28_TierCountsPartitionMembers ==
    \A i \in 1..Len(MonthRows) :
        LET n == TierCounts(heap.cfg, MonthRows[i].members)
        IN  /\ n.comm >= 0 /\ n.play >= 0 /\ n.pro >= 0
            /\ n.comm + n.play + n.pro = MonthRows[i].members


\* the league weeks of the twelve months of projection year y (0 or 1)
YearLeagueWeeks(y) == [i \in 1..12 |-> MonthRows[12 * y + i].league_weeks_m]

\* C29: for each of the two projection years, the twelve league_weeks_m
\* values sum to the configured league.active_weeks, the weeks by which
\* compute takes the weekly league revenue to the year
C29_LeagueWeeksSumToActiveWeeks ==
    \A y \in {0, 1} :
        Len(MonthRows) >= 12 * (y + 1)
          => LET w == YearLeagueWeeks(y)
             IN  SumSeq([i \in 1..12 |-> w[i].n])
                   = heap.cfg.league.active_weeks * w[1].d


\* the block counts that derive_league_capacity returned are the ones the
\* prime windows hold
BlocksKept ==
    LET init == DeriveEnter(Arg.prime, Arg.league, Arg.facility)
    IN  /\ loc.league_cap.blocks_fri = init.blocks_fri
        /\ loc.league_cap.blocks_mon_thu = init.blocks_mon_thu
        /\ loc.league_cap.blocks_weekend = init.blocks_weekend

\* C30: for non-negative prime windows and a positive block length, a league
\* with courts_used <= facility.courts is returned unreduced with an empty
\* warnings list; and with facility.courts >= 2 no block count is ever
\* reduced, stages 2-4 of the ladder being reached only with fewer than 2
\* courts
C30_BlocksReducedOnlyBelowTwoCourts ==
    (entry = "compute" /\ ValidSchedule(Arg)
       /\ Arg.league.session_len_h + Arg.league.buffer_min > 0)
      => /\ (pc = "derived" /\ Arg.league.courts_used <= Arg.facility.courts)
              => /\ loc.league_cap.warnings = <<>>
                 /\ loc.league_cap.courts_used = Arg.league.courts_used
                 /\ BlocksKept
         /\ (pc = "derived" /\ Arg.facility.courts >= 2) => BlocksKept
         /\ pc \in {"step2", "step3", "step4"} => Arg.facility.courts < 2

====
